---- MODULE Spec2Model ----
(***************************************************************************)
(* Model of the connector SDK's structured-event bridge and task loop:     *)
(*   - events.Handler      (sdk/events/error.go): the error-state tracker  *)
(*   - events.LogHandler   (sdk/events/logger.go): the slog back-end       *)
(*   - ConnectorManagerClient (sdk client): call/retryDo, tasks, Start     *)
(* Each component has its own specification (SpecErr, SpecLog, SpecLoop);  *)
(* the variables of the other components are parked at their initial value.*)
(***************************************************************************)
EXTENDS Integers, Sequences, FiniteSets, TLC

VARIABLES
    \* ---- events.Handler (error.go) ----
    errors,     \* Handler.errors: map[ErrorEventType]string, as a function on the flagged kinds
    lock,       \* Handler.lock: the goroutine holding the mutex, or NoHolder
    pc,         \* per goroutine: position inside NotifyError / NotifyResolution
    call,       \* per goroutine: the arguments of the call in progress
    sent,       \* every call made to notifier.Notify, in order, with its outcome
    hist,       \* the completed NotifyError / NotifyResolution calls, in order of return
    seed,       \* the unresolvedError argument NewHandler was given: nil or a map, with
                \* the entries it held at that time
    \* ---- events.LogHandler (logger.go) ----
    growth,     \* how append() sizes a new backing array in this build: "exact" or "double"
    arrA,       \* the backing arrays of []attrWithGroups slices, in order of allocation
    arrG,       \* the backing arrays of []string slices, in order of allocation
    handlers,   \* the LogHandler values in existence: handlers[1] is the first one
    derivs,     \* per handler, the call that made it: its parent, WithAttrs/WithGroup, the argument
    logged,     \* the last LogEvent handed to eventPusher.Notify, or NoLog
    levelVar,   \* the level held by the shared *slog.LevelVar given to NewHandler
    record,     \* the last record given to a logger: its handler, level, message, inline
                \* attributes, and the number of Notify calls it led to
    \* ---- ConnectorManagerClient (call, retryDo, tasks, Start) ----
    ctxDone,    \* the context given to Start is cancelled
    queue,      \* the buffered tasks channel
    closed,     \* the tasks channel is closed
    prod,       \* the goroutine started by tasks(): its position, the batch being pushed,
                \* and whether a fetch of it has failed with a non-fatal error
    cons,       \* Start's loop: its position, the task in hand and its taskError
    http,       \* per goroutine, the call() in progress: tries, last response, result
    stopped,    \* the Connector's status: TRUE when Status() is Stopped
    connCalls,  \* the calls made to the Connector, in order
    acks,       \* the TaskEvents handed to Notify, in order
    served,     \* number of tasks the manager has returned so far
    nreq,       \* number of HTTP attempts made so far
    seen401,    \* call() has received a 401 response and read its body
    notif,      \* Notify called from outside Start: the event given, the position of the
                \* call, the request body built and the error returned
    inspected   \* the Task last asked for its Status(), with the answer

errVars == <<errors, lock, pc, call, sent, hist, seed>>
logVars == <<growth, arrA, arrG, handlers, derivs, logged, levelVar, record>>
loopVars == <<ctxDone, queue, closed, prod, cons, http, stopped, connCalls, acks,
              served, nreq, seen401>>

appVars == <<notif, inspected>>

vars == <<errVars, logVars, loopVars, appVars>>

-----------------------------------------------------------------------------
(* Bounds of the model.                                                    *)

\* Total number of NotifyError / NotifyResolution calls started in one behaviour.
MaxCalls == 3

\* Number of handlers derived (WithAttrs / WithGroup) from the first one.
MaxDerived == 2

\* Number of tasks the manager returns in one behaviour, and number of HTTP attempts
\* made in one behaviour.
MaxTasks == 2
MaxRequests == 2

-----------------------------------------------------------------------------
(* The state of a component while another component's specification runs.  *)

NoLog == [handler |-> 0, level |-> "", msg |-> "", inline |-> <<>>, attributes |-> <<>>]

NoRecord == [handler |-> 0, level |-> 0, msg |-> "", inline |-> <<>>, notifies |-> 0]

LogParked ==
    /\ growth = "exact"
    /\ arrA = <<>>
    /\ arrG = <<>>
    /\ handlers = <<>>
    /\ derivs = <<>>
    /\ logged = NoLog
    /\ levelVar = 0
    /\ record = NoRecord

Goroutines == {"prod", "cons", "app"}

NoCall == [st |-> "idle", path |-> "", tries |-> 0, bodyRead |-> FALSE, status |-> 0,
           respRead |-> FALSE, respBody |-> "", code |-> 0, payload |-> <<>>,
           err |-> "nil"]
NoTask == [id |-> 0, action |-> "", content |-> ""]

LoopParked ==
    /\ ctxDone = FALSE
    /\ queue = <<>>
    /\ closed = FALSE
    /\ prod = [pc |-> "select", batch |-> <<>>, failed |-> FALSE]
    /\ cons = [pc |-> "select", task |-> NoTask, taskError |-> ""]
    /\ http = [g \in Goroutines |-> NoCall]
    /\ stopped = FALSE
    /\ connCalls = <<>>
    /\ acks = <<>>
    /\ served = 0
    /\ nreq = 0
    /\ seen401 = FALSE

NoEvent == [variant |-> "", data |-> ""]
NoEnvelope == [type |-> "", event |-> ""]
NoNotify == [pc |-> "idle", event |-> NoEvent, reqBody |-> NoEnvelope, err |-> "nil"]

NoStatus == [task |-> <<>>, status |-> ""]

AppParked == notif = NoNotify /\ inspected = NoStatus

-----------------------------------------------------------------------------
(* events.Handler: the error-state tracker (sdk/events/error.go).          *)

\* The goroutines calling into the Handler concurrently.
Procs == {"p1", "p2"}

\* ErrorEventType is an open string type; two kinds are enough to tell a
\* requested kind from one that is not requested.
Kinds == {"gmalware", "gmalware-bad-config"}

\* e.Error() of the error passed to NotifyError.
Msgs == {"m1", "m2"}

\* The msg argument of NotifyResolution.
ResMsgs == {"resolved"}

\* The variadic errorTypes argument of NotifyResolution.
KindLists == {<<>>, <<"gmalware">>, <<"gmalware", "gmalware-bad-config">>}

NoHolder == "free"

\* err == nil, and the error returned by notifier.Notify.
NilErr == "nil"
PushErr == "push-error"

\* unresolvedError handed to NewHandler: nil, or a map the caller has built.
EmptyMap == [k \in {} |-> "m1"]
SeedMaps == {EmptyMap,
             [k \in {"gmalware-bad-config"} |-> "m2"],
             [k \in Kinds |-> "m1"]}
NilSeed == [nil |-> TRUE, map |-> EmptyMap]
Seeds == {NilSeed} \cup {[nil |-> FALSE, map |-> m] : m \in SeedMaps}

\* Mutant of NewHandlerErrors: the tracker always starts empty.
NewHandlerErrorsEmpty(unresolvedError) == EmptyMap

\* NewHandler: if unresolvedError == nil { unresolvedError = make(map) }; the Handler's
\* errors field is that map.
NewHandlerErrors(unresolvedError) ==
    IF unresolvedError.nil THEN EmptyMap ELSE unresolvedError.map

Range(s) == {s[i] : i \in 1..Len(s)}

\* Mutants of hadError: the duplicate check never matches; the message is not compared.
hadErrorNever(errs, errorType, errorMsg) == FALSE
hadErrorKindOnly(errs, errorType, errorMsg) == errorType \in DOMAIN errs

\* func (h *Handler) hadError(errorType, errorMsg) bool
hadError(errs, errorType, errorMsg) ==
    errorType \in DOMAIN errs /\ errs[errorType] = errorMsg

\* Mutant of hadErrors: any flagged kind counts, requested or not.
hadErrorsAnyKind(errs, errorTypes) == DOMAIN errs # {}

\* func (h *Handler) hadErrors(errorTypes) bool
hadErrors(errs, errorTypes) ==
    \E i \in 1..Len(errorTypes) : errorTypes[i] \in DOMAIN errs

\* Mutant of SetError: a kind already flagged keeps its first message.
SetErrorKeepsFirst(errs, errorType, msg) ==
    [k \in DOMAIN errs \cup {errorType} |-> IF k \in DOMAIN errs THEN errs[k] ELSE msg]

\* h.errors[errorType] = e.Error()
SetError(errs, errorType, msg) ==
    [k \in DOMAIN errs \cup {errorType} |-> IF k = errorType THEN msg ELSE errs[k]]

\* Mutants of DeleteErrors: nothing is deleted; the whole map is cleared.
DeleteNothing(errs, errorTypes) == errs
DeleteEverything(errs, errorTypes) == [k \in {} |-> "m1"]

\* for _, errType := range errorTypes { delete(h.errors, errType) }
DeleteErrors(errs, errorTypes) ==
    [k \in DOMAIN errs \ Range(errorTypes) |-> errs[k]]

\* ErrorEvent{Error, Type} and ResolutionEvent{Resolution, Types}; Time is left out.
ErrorEvent(errorType, msg) == [type |-> "error", kinds |-> <<errorType>>, msg |-> msg]
ResolutionEvent(errorTypes, msg) == [type |-> "resolution", kinds |-> errorTypes, msg |-> msg]

\* Mutant of CanLock: the mutex excludes nobody.
CanLockAlways(p) == TRUE

\* Mutant of CanLock: one mutex per kind, so calls about different kinds do not exclude
\* each other.
CanLockPerKind(p) == IF lock = NoHolder THEN TRUE ELSE call[lock].kinds # call[p].kinds

\* h.lock.Lock() returns only when no goroutine holds the mutex.
CanLock(p) == lock = NoHolder

\* What the call in progress would send.
EventOf(c) ==
    IF c.op = "error" THEN ErrorEvent(c.kinds[1], c.msg)
    ELSE ResolutionEvent(c.kinds, c.msg)

\* The duplicate check of the call in progress: TRUE when nothing has to be sent.
NothingToSend(errs, c) ==
    IF c.op = "error" THEN hadError(errs, c.kinds[1], c.msg)
    ELSE ~hadErrors(errs, c.kinds)

\* The update of the map after a successful send.
Recorded(errs, c) ==
    IF c.op = "error" THEN SetError(errs, c.kinds[1], c.msg)
    ELSE DeleteErrors(errs, c.kinds)

Started == Len(hist) + Cardinality({p \in Procs : pc[p] # "idle"})

\* Mutant of AfterSend: the map is written whatever the notifier returned.
AfterSendAlways(errs, c, ok) == Recorded(errs, c)

\* if err != nil { return }  -- the map is written only after a successful send.
AfterSend(errs, c, ok) == IF ok THEN Recorded(errs, c) ELSE errs

\* The record of a returned call: what was asked, how many calls had returned when it
\* started, the map when the check ran and when the call returned, how many times the
\* notifier was called and where in sent, and the returned error.
Done(p, ncalls, at, res, post) ==
    [op |-> call[p].op, kinds |-> call[p].kinds, msg |-> call[p].msg,
     began |-> call[p].began, pre |-> call[p].pre, post |-> post,
     ncalls |-> ncalls, at |-> at, res |-> res]

IdleCall == [op |-> "none", kinds |-> <<>>, msg |-> "", began |-> 0, pre |-> EmptyMap]

ErrParked ==
    /\ seed = NilSeed
    /\ errors = EmptyMap
    /\ lock = NoHolder
    /\ pc = [p \in Procs |-> "idle"]
    /\ call = [p \in Procs |-> IdleCall]
    /\ sent = <<>>
    /\ hist = <<>>

ErrInit ==
    /\ LogParked
    /\ LoopParked
    /\ AppParked
    /\ seed \in Seeds
    /\ errors = NewHandlerErrors(seed)
    /\ lock = NoHolder
    /\ pc = [p \in Procs |-> "idle"]
    /\ call = [p \in Procs |-> IdleCall]
    /\ sent = <<>>
    /\ hist = <<>>

\* A goroutine calls h.NotifyError(ctx, errorType, e) and reaches h.lock.Lock().
CallNotifyError(p, errorType, msg) ==
    /\ pc[p] = "idle"
    /\ Started < MaxCalls
    /\ pc' = [pc EXCEPT ![p] = "lock"]
    /\ call' = [call EXCEPT ![p] = [op |-> "error", kinds |-> <<errorType>>, msg |-> msg,
                                    began |-> Len(hist), pre |-> EmptyMap]]
    /\ UNCHANGED <<errors, lock, sent, hist, seed>>

\* A goroutine calls h.NotifyResolution(ctx, msg, errorTypes...) and reaches h.lock.Lock().
CallNotifyResolution(p, msg, errorTypes) ==
    /\ pc[p] = "idle"
    /\ Started < MaxCalls
    /\ pc' = [pc EXCEPT ![p] = "lock"]
    /\ call' = [call EXCEPT ![p] = [op |-> "resolution", kinds |-> errorTypes, msg |-> msg,
                                    began |-> Len(hist), pre |-> EmptyMap]]
    /\ UNCHANGED <<errors, lock, sent, hist, seed>>

\* h.lock.Lock() succeeds, then the check (hadError / hadErrors) runs: either the call
\* returns nil at once (the deferred Unlock runs), or notifier.Notify is called.
Check(p) ==
    /\ pc[p] = "lock"
    /\ CanLock(p)
    /\ IF NothingToSend(errors, call[p])
       THEN /\ pc' = [pc EXCEPT ![p] = "idle"]
            /\ call' = [call EXCEPT ![p] = IdleCall]
            /\ hist' = Append(hist, [Done(p, 0, 0, NilErr, errors) EXCEPT !.pre = errors])
            /\ UNCHANGED lock
       ELSE /\ pc' = [pc EXCEPT ![p] = "notify"]
            /\ call' = [call EXCEPT ![p].pre = errors]
            /\ lock' = p
            /\ UNCHANGED hist
    /\ UNCHANGED <<errors, sent, seed>>

\* notifier.Notify returns: on an error the call returns it, the map untouched; on
\* success the map is updated; either way the deferred Unlock runs.
NotifyReturns(p, ok) ==
    /\ pc[p] = "notify"
    /\ sent' = Append(sent, [ev |-> EventOf(call[p]), ok |-> ok])
    /\ errors' = AfterSend(errors, call[p], ok)
    /\ hist' = Append(hist, Done(p, 1, Len(sent'), IF ok THEN NilErr ELSE PushErr, errors'))
    /\ lock' = IF lock = p THEN NoHolder ELSE lock
    /\ pc' = [pc EXCEPT ![p] = "idle"]
    /\ call' = [call EXCEPT ![p] = IdleCall]
    /\ UNCHANGED seed

ErrNext ==
    \/ \E p \in Procs, k \in Kinds, m \in Msgs :
            CallNotifyError(p, k, m) /\ UNCHANGED <<logVars, loopVars, appVars>>
    \/ \E p \in Procs, m \in ResMsgs, ks \in KindLists :
            CallNotifyResolution(p, m, ks) /\ UNCHANGED <<logVars, loopVars, appVars>>
    \/ \E p \in Procs : Check(p) /\ UNCHANGED <<logVars, loopVars, appVars>>
    \/ \E p \in Procs, ok \in BOOLEAN : NotifyReturns(p, ok) /\ UNCHANGED <<logVars, loopVars, appVars>>

SpecErr == ErrInit /\ [][ErrNext]_vars

\* The caller of NewHandler writes to the map it passed in, for instance by decoding a
\* second registration answer into the same RegistrationInfo. Handler.errors is that
\* very map, so the write is seen by the Handler; nothing is shared when the argument
\* was nil. The write takes no lock: it is modelled in the interleavings where it does
\* not overlap a map access of the Handler.
CallerWrites(errorType, msg) ==
    /\ ~seed.nil
    /\ errors' = SetError(errors, errorType, msg)
    /\ errors' # errors
    /\ UNCHANGED <<lock, pc, call, sent, hist, seed>>

\* The caller deletes a key of the map it passed in.
CallerDeletes(errorType) ==
    /\ ~seed.nil
    /\ errorType \in DOMAIN errors
    /\ errors' = DeleteErrors(errors, <<errorType>>)
    /\ UNCHANGED <<lock, pc, call, sent, hist, seed>>

\* The tracker in a program that keeps using the map it seeded the tracker with: one
\* goroutine reports and resolves errors while the holder of the map rewrites one key.
SeedNext ==
    \/ \E k \in Kinds :
            CallNotifyError("p1", k, "m1") /\ UNCHANGED <<logVars, loopVars, appVars>>
    \/ CallNotifyResolution("p1", "resolved", <<"gmalware">>)
            /\ UNCHANGED <<logVars, loopVars, appVars>>
    \/ Check("p1") /\ UNCHANGED <<logVars, loopVars, appVars>>
    \/ \E ok \in BOOLEAN :
            NotifyReturns("p1", ok) /\ UNCHANGED <<logVars, loopVars, appVars>>
    \/ CallerWrites("gmalware", "m2") /\ UNCHANGED <<logVars, loopVars, appVars>>
    \/ CallerDeletes("gmalware") /\ UNCHANGED <<logVars, loopVars, appVars>>

SpecSeed == ErrInit /\ [][SeedNext]_vars

-----------------------------------------------------------------------------
(* Properties of the error-state tracker, checked under SpecErr.           *)

IsError(h, k, m) == h.op = "error" /\ h.kinds = <<k>> /\ h.msg = m
IsResolution(h) == h.op = "resolution"
Clear(errs, k) == k \notin DOMAIN errs
Requested(h) == Range(h.kinds)
Pairs == 1..(Len(hist) - 1)

\* C2: from a state where kind K is clear and with a notifier that accepts, two
\* NotifyError(K, e) calls in a row with the same message make exactly one notifier
\* call, which carries ErrorEvent(K, e); the second call returns nil without calling
\* the notifier.
C2_TwiceSendsOnce ==
    \A i \in Pairs : \A k \in Kinds, m \in Msgs :
        ( /\ IsError(hist[i], k, m) /\ IsError(hist[i+1], k, m)
          /\ Clear(hist[i].pre, k)
          /\ hist[i].res = NilErr )
        => /\ hist[i].ncalls = 1
           /\ sent[hist[i].at] = [ev |-> ErrorEvent(k, m), ok |-> TRUE]
           /\ hist[i+1].ncalls = 0
           /\ hist[i+1].res = NilErr

C2_Witness ==
    \E i \in Pairs : \E k \in Kinds, m \in Msgs :
        /\ IsError(hist[i], k, m) /\ IsError(hist[i+1], k, m)
        /\ Clear(hist[i].pre, k)
        /\ hist[i].res = NilErr /\ hist[i+1].res = NilErr
        /\ Len(sent) = 1

\* C3: with K clear and a notifier that accepts, NotifyError(K, e), then
\* NotifyResolution(msg, K), then NotifyError(K, e) make three notifier calls, in the
\* order error, resolution, error: the third call is not suppressed.
C3_RenotifyAfterResolution ==
    \A i \in 1..(Len(hist) - 2) : \A k \in Kinds, m \in Msgs :
        ( /\ IsError(hist[i], k, m) /\ Clear(hist[i].pre, k) /\ hist[i].res = NilErr
          /\ IsResolution(hist[i+1]) /\ k \in Requested(hist[i+1]) /\ hist[i+1].res = NilErr
          /\ IsError(hist[i+2], k, m) /\ hist[i+2].res = NilErr )
        => /\ hist[i].ncalls = 1 /\ hist[i+1].ncalls = 1 /\ hist[i+2].ncalls = 1
           /\ hist[i+1].at = hist[i].at + 1 /\ hist[i+2].at = hist[i].at + 2
           /\ sent[hist[i].at] = [ev |-> ErrorEvent(k, m), ok |-> TRUE]
           /\ sent[hist[i+1].at] =
                  [ev |-> ResolutionEvent(hist[i+1].kinds, hist[i+1].msg), ok |-> TRUE]
           /\ sent[hist[i+2].at] = [ev |-> ErrorEvent(k, m), ok |-> TRUE]

C3_Witness ==
    \E k \in Kinds, m \in Msgs :
        /\ Len(hist) = 3
        /\ IsError(hist[1], k, m) /\ Clear(hist[1].pre, k)
        /\ IsResolution(hist[2]) /\ k \in Requested(hist[2])
        /\ IsError(hist[3], k, m)
        /\ Len(sent) = 3 /\ \A j \in 1..3 : sent[j].ok

\* C4: NotifyResolution for a list of kinds none of which is flagged (the empty list
\* included) makes no notifier call, returns nil and leaves the error map as it was.
C4_ResolutionOfClearKinds ==
    \A i \in 1..Len(hist) :
        (IsResolution(hist[i]) /\ Requested(hist[i]) \cap DOMAIN hist[i].pre = {})
        => /\ hist[i].ncalls = 0
           /\ hist[i].res = NilErr
           /\ hist[i].post = hist[i].pre

C4_Witness ==
    /\ \E i \in 1..Len(hist) :
        /\ IsResolution(hist[i]) /\ hist[i].kinds = <<"gmalware">>
        /\ DOMAIN hist[i].pre = {"gmalware-bad-config"}
    /\ \E i \in 1..Len(hist) :
        /\ IsResolution(hist[i]) /\ hist[i].kinds = <<>>
        /\ DOMAIN hist[i].pre # {}

SameCall(a, b) == a.op = b.op /\ a.kinds = b.kinds /\ a.msg = b.msg

\* C5: the error map is written only after a successful send. When the notifier
\* returns an error, the call returns that error and the map is as it was, so the
\* same call made next calls the notifier again.
C5_FailedSendKeepsState ==
    /\ \A i \in 1..Len(hist) :
        /\ hist[i].ncalls = 1 =>
              (hist[i].res = PushErr <=> ~sent[hist[i].at].ok)
        /\ hist[i].ncalls = 0 => hist[i].res = NilErr
        /\ hist[i].res = PushErr => hist[i].post = hist[i].pre
    /\ \A i \in Pairs :
        (hist[i].res = PushErr /\ SameCall(hist[i], hist[i+1]))
        => hist[i+1].ncalls = 1 /\ sent[hist[i+1].at].ev = sent[hist[i].at].ev

C5_Witness ==
    /\ \E i \in Pairs :
        /\ hist[i].op = "error" /\ hist[i].res = PushErr
        /\ SameCall(hist[i], hist[i+1]) /\ hist[i+1].res = NilErr
    /\ \E i \in 1..Len(hist) :
        hist[i].op = "resolution" /\ hist[i].res = PushErr /\ hist[i].pre # EmptyMap

\* C6: when K is flagged with m1, NotifyError(K, e) with a message m2 # m1 calls the
\* notifier with ErrorEvent(K, m2); on success the entry of K becomes m2 and nothing
\* else changes, and a NotifyError(K, m1) made next calls the notifier again.
C6_DifferentMessageRenotifies ==
    \A i \in 1..Len(hist) : \A k \in Kinds, m2 \in Msgs :
        (IsError(hist[i], k, m2) /\ ~Clear(hist[i].pre, k) /\ hist[i].pre[k] # m2)
        => /\ hist[i].ncalls = 1
           /\ sent[hist[i].at].ev = ErrorEvent(k, m2)
           /\ hist[i].res = NilErr =>
                /\ DOMAIN hist[i].post = DOMAIN hist[i].pre
                /\ hist[i].post[k] = m2
                /\ \A o \in DOMAIN hist[i].pre \ {k} : hist[i].post[o] = hist[i].pre[o]
                /\ (i < Len(hist) /\ IsError(hist[i+1], k, hist[i].pre[k]))
                       => hist[i+1].ncalls = 1

C6_Witness ==
    \E i \in Pairs : \E k \in Kinds, m2 \in Msgs :
        /\ IsError(hist[i], k, m2) /\ ~Clear(hist[i].pre, k) /\ hist[i].pre[k] # m2
        /\ hist[i].res = NilErr
        /\ DOMAIN hist[i].pre = Kinds
        /\ IsError(hist[i+1], k, hist[i].pre[k])

\* C7: when at least one requested kind is flagged and the send succeeds,
\* NotifyResolution sends one ResolutionEvent carrying all the requested kinds and
\* removes the entries of all of them; the entries of the other kinds are unchanged.
C7_ResolutionRemovesRequested ==
    \A i \in 1..Len(hist) :
        ( /\ IsResolution(hist[i])
          /\ Requested(hist[i]) \cap DOMAIN hist[i].pre # {}
          /\ hist[i].res = NilErr )
        => /\ hist[i].ncalls = 1
           /\ sent[hist[i].at] =
                  [ev |-> ResolutionEvent(hist[i].kinds, hist[i].msg), ok |-> TRUE]
           /\ DOMAIN hist[i].post = DOMAIN hist[i].pre \ Requested(hist[i])
           /\ \A o \in DOMAIN hist[i].post : hist[i].post[o] = hist[i].pre[o]

C7_Witness ==
    /\ \E i \in 1..Len(hist) :
        /\ IsResolution(hist[i]) /\ hist[i].res = NilErr
        /\ hist[i].kinds = <<"gmalware">>
        /\ DOMAIN hist[i].pre = Kinds /\ DOMAIN hist[i].post = {"gmalware-bad-config"}
    /\ \E i \in 1..Len(hist) :
        /\ IsResolution(hist[i]) /\ hist[i].res = NilErr
        /\ Len(hist[i].kinds) = 2 /\ Cardinality(DOMAIN hist[i].pre) = 1

\* C8: the duplicate check and the recording of the entry are one atomic step: at
\* most one goroutine is between its check and its return, and of two overlapping
\* NotifyError calls for the same clear kind and message, with a notifier that
\* accepts, exactly one calls the notifier.
C8_ConcurrentDuplicateSendsOnce ==
    /\ \A p \in Procs, q \in Procs : (pc[p] = "notify" /\ pc[q] = "notify") => p = q
    /\ \A i \in Pairs : \A k \in Kinds, m \in Msgs :
        ( /\ IsError(hist[i], k, m) /\ IsError(hist[i+1], k, m)
          /\ hist[i+1].began < i
          /\ Clear(hist[i].pre, k)
          /\ hist[i].res = NilErr /\ hist[i+1].res = NilErr )
        => hist[i].ncalls + hist[i+1].ncalls = 1

C8_Witness ==
    \E i \in Pairs : \E k \in Kinds, m \in Msgs :
        /\ IsError(hist[i], k, m) /\ IsError(hist[i+1], k, m)
        /\ hist[i+1].began < i /\ hist[i].began < i
        /\ Clear(hist[i].pre, k)
        /\ hist[i].res = NilErr /\ hist[i+1].res = NilErr
        /\ Len(sent) = 1

\* C40: at most one send of a Handler is in flight: while a goroutine is inside
\* notifier.Notify it holds the mutex, no other goroutine is inside Notify, and a call
\* waiting for the mutex, whatever its kind, stays where it is, its check not run; the
\* only send that is recorded and the only call that returns is the holder's.
C40_OneSendInFlight ==
    [][\A p \in Procs :
          pc[p] = "notify" =>
            /\ lock = p
            /\ \A q \in Procs \ {p} :
                /\ pc[q] # "notify"
                /\ pc'[q] # "notify"
                /\ pc[q] = "lock" => pc'[q] = "lock" /\ call'[q] = call[q]
            /\ (sent' # sent \/ hist' # hist \/ errors' # errors) =>
                /\ pc'[p] = "idle"
                /\ Len(sent') = Len(sent) + 1
                /\ Len(hist') = Len(hist) + 1
                /\ sent'[Len(sent')].ev = EventOf(call[p])
    ]_vars

\* One goroutine is inside notifier.Notify with an error of one kind while the other
\* waits for the mutex with an error of another kind that the map does not hold, after
\* an earlier send has been made.
C40_Witness ==
    \E p \in Procs, q \in Procs :
        /\ pc[p] = "notify"
        /\ pc[q] = "lock"
        /\ call[p].op = "error"
        /\ call[q].op = "error"
        /\ call[p].kinds # call[q].kinds
        /\ ~NothingToSend(errors, call[q])
        /\ Len(sent) = 1

-----------------------------------------------------------------------------
(* events.LogHandler: the slog back-end (sdk/events/logger.go).            *)
(* A Go slice is a window [arr, len, cap] on a backing array; two slices   *)
(* on the same array see each other's writes.                              *)

NilSlice == [arr |-> 0, len |-> 0, cap |-> 0]

\* The zero values of attrWithGroups and string, which fill spare capacity.
ZeroCell == [key |-> "", val |-> "", groups |-> NilSlice]
ZeroString == ""

\* slog.Level: LevelDebug = -4, LevelInfo = 0, LevelWarn = 4, LevelError = 8; a
\* level in between is named by the level below it and its distance from it.
LevelInfo == 0
Levels == {LevelInfo - 4, LevelInfo, LevelInfo + 2, LevelInfo + 4}

\* The levels the shared level variable is set to.
Thresholds == {LevelInfo - 4, LevelInfo + 4}

\* The messages of the records logged.
LogMsgs == {"msg", "Hello"}

\* func (l slog.Level) String() string, on Levels.
LevelString(l) ==
    LET name == IF l < LevelInfo THEN "DEBUG"
                ELSE IF l < LevelInfo + 4 THEN "INFO"
                ELSE IF l < LevelInfo + 8 THEN "WARN"
                ELSE "ERROR"
        base == IF l < LevelInfo THEN LevelInfo - 4
                ELSE IF l < LevelInfo + 4 THEN LevelInfo
                ELSE IF l < LevelInfo + 8 THEN LevelInfo + 4
                ELSE LevelInfo + 8
    IN IF l = base THEN name ELSE name \o "+" \o ToString(l - base)

\* strings.ToLower, on the strings LevelString gives.
ToLower ==
    [s \in {LevelString(l) : l \in Levels} |->
        CASE s = "DEBUG" -> "debug"
          [] s = "INFO" -> "info"
          [] s = "INFO+2" -> "info+2"
          [] s = "WARN" -> "warn"]

\* slog.Attr values passed to With / WithAttrs or given inline to a log call.
Attr(k, v) == [key |-> k, val |-> v]
AttrLists == {<<>>, <<Attr("a", "1")>>, <<Attr("a", "2")>>, <<Attr("g", "1"), Attr("a", "3")>>}
GroupNames == {"", "g", "h"}
InlineLists == {<<>>, <<Attr("a", "9")>>}

\* Mutant of Clip: the slice keeps its spare capacity.
ClipNothing(s) == s

\* slices.Clip(s): s[:len(s):len(s)]
Clip(s) == [s EXCEPT !.cap = s.len]

\* The capacity append() gives a new backing array: sufficient, and possibly more.
GrowCap(policy, oldCap, needed) ==
    IF policy = "double" /\ 2 * oldCap > needed THEN 2 * oldCap ELSE needed

\* append(s, x) on the heap of backing arrays: written in place when there is spare
\* capacity, otherwise copied to a new array.
GoAppend(heap, s, x, zero) ==
    IF s.len < s.cap
    THEN [heap |-> [heap EXCEPT ![s.arr][s.len + 1] = x],
          slice |-> [s EXCEPT !.len = s.len + 1]]
    ELSE LET newCap == GrowCap(growth, s.cap, s.len + 1)
             newArr == [i \in 1..newCap |->
                           IF i <= s.len THEN heap[s.arr][i]
                           ELSE IF i = s.len + 1 THEN x ELSE zero]
         IN [heap |-> Append(heap, newArr),
             slice |-> [arr |-> Len(heap) + 1, len |-> s.len + 1, cap |-> newCap]]

\* for _, attr := range attrs { lh.attributes = append(lh.attributes, attrWithGroups{attr, groups}) }
RECURSIVE AppendAttrs(_, _, _, _)
AppendAttrs(heap, s, attrs, groups) ==
    IF attrs = <<>> THEN [heap |-> heap, slice |-> s]
    ELSE LET r == GoAppend(heap, s,
                           [key |-> Head(attrs).key, val |-> Head(attrs).val, groups |-> groups],
                           ZeroCell)
         IN AppendAttrs(r.heap, r.slice, Tail(attrs), groups)

\* The strings a []string slice shows.
ReadStrings(s) == [i \in 1..s.len |-> arrG[s.arr][i]]

\* Mutant of ReadAttrs: every attribute is read with the handler's current groups.
ReadAttrsAtCurrentGroups(lh) ==
    [i \in 1..lh.attributes.len |->
        LET c == arrA[lh.attributes.arr][i]
        IN [key |-> c.key, val |-> c.val, groups |-> ReadStrings(lh.groups)]]

\* The attributes a handler shows, each with the group path it holds.
ReadAttrs(lh) ==
    [i \in 1..lh.attributes.len |->
        LET c == arrA[lh.attributes.arr][i]
        IN [key |-> c.key, val |-> c.val, groups |-> ReadStrings(c.groups)]]

\* map[string]any: a function from keys to values that are scalars or maps.
EmptyAttrMap == <<>>
Scalar(v) == [kind |-> "scalar", val |-> v, map |-> EmptyAttrMap]
MapVal(m) == [kind |-> "map", val |-> "", map |-> m]
Put(m, k, v) == [x \in DOMAIN m \cup {k} |-> IF x = k THEN v ELSE m[x]]

\* Mutant of addAttribute: an attribute whose group is held as a plain value is dropped.
RECURSIVE addAttributeKeepsValue(_, _, _)
addAttributeKeepsValue(attributes, groups, attr) ==
    IF Len(groups) = 0
    THEN Put(attributes, attr.key, Scalar(attr.val))
    ELSE LET group == Head(groups)
         IN IF group \in DOMAIN attributes /\ attributes[group].kind # "map"
            THEN attributes
            ELSE LET groupMap == IF group \in DOMAIN attributes
                                 THEN attributes[group].map
                                 ELSE EmptyAttrMap
                 IN Put(attributes, group,
                        MapVal(addAttributeKeepsValue(groupMap, Tail(groups), attr)))

\* func addAttribute(attributes map[string]any, groups []string, attr slog.Attr)
RECURSIVE addAttribute(_, _, _)
addAttribute(attributes, groups, attr) ==
    IF Len(groups) = 0
    THEN Put(attributes, attr.key, Scalar(attr.val))
    ELSE LET group == Head(groups)
             groupMap == IF group \in DOMAIN attributes /\ attributes[group].kind = "map"
                         THEN attributes[group].map
                         ELSE EmptyAttrMap
         IN Put(attributes, group, MapVal(addAttribute(groupMap, Tail(groups), attr)))

\* for _, a := range lh.attributes { addAttribute(attributes, a.groups, a.attr) }
RECURSIVE AddPersisted(_, _)
AddPersisted(attributes, cells) ==
    IF cells = <<>> THEN attributes
    ELSE AddPersisted(addAttribute(attributes, Head(cells).groups, Head(cells)), Tail(cells))

\* record.Attrs(func(attr) { addAttribute(attributes, lh.groups, attr) })
RECURSIVE AddInline(_, _, _)
AddInline(attributes, groups, attrs) ==
    IF attrs = <<>> THEN attributes
    ELSE AddInline(addAttribute(attributes, groups, Head(attrs)), groups, Tail(attrs))

\* Mutant of BuildMap: the record's own attributes are put first.
BuildMapInlineFirst(persisted, groups, inline) ==
    AddPersisted(AddInline(EmptyAttrMap, groups, inline), persisted)

\* The map built from persisted attributes and then the record's own.
BuildMap(persisted, groups, inline) ==
    AddInline(AddPersisted(EmptyAttrMap, persisted), groups, inline)

\* func (lh LogHandler) getAttributes(record slog.Record) map[string]any
getAttributes(lh, inline) == BuildMap(ReadAttrs(lh), ReadStrings(lh.groups), inline)

\* The first handler: NewHandler's (nil slices), or one built by the caller on slices
\* that hold "common"/"g1" and have spare capacity (make([]T, 1, 2)).
RootShapes == {<<0, 0>>, <<1, 0>>, <<0, 1>>, <<1, 1>>}

RootAttrs(n) == IF n = 0 THEN <<>> ELSE <<[key |-> "common", val |-> "val", groups |-> <<>>]>>
RootGroups(n) == IF n = 0 THEN <<>> ELSE <<"g1">>

LogInit ==
    /\ ErrParked
    /\ LoopParked
    /\ AppParked
    /\ growth \in {"exact", "double"}
    /\ \E shape \in RootShapes :
        /\ arrA = IF shape[1] = 0 THEN <<>>
                  ELSE << <<[key |-> "common", val |-> "val", groups |-> NilSlice], ZeroCell>> >>
        /\ arrG = IF shape[2] = 0 THEN <<>> ELSE << <<"g1", ZeroString>> >>
        /\ handlers = <<[attributes |-> IF shape[1] = 0 THEN NilSlice
                                        ELSE [arr |-> 1, len |-> 1, cap |-> 2],
                         groups |-> IF shape[2] = 0 THEN NilSlice
                                    ELSE [arr |-> 1, len |-> 1, cap |-> 2],
                         leveler |-> "var"]>>
        /\ derivs = <<[parent |-> 0, op |-> "root", attrs |-> RootAttrs(shape[1]),
                       name |-> "", groups |-> RootGroups(shape[2]), min |-> LevelInfo]>>
    /\ logged = NoLog
    /\ levelVar = LevelInfo
    /\ record = NoRecord

\* func (lh LogHandler) WithAttrs(attrs []slog.Attr) slog.Handler
WithAttrs(i, attrs) ==
    /\ i \in 1..Len(handlers)
    /\ Len(handlers) < 1 + MaxDerived
    /\ IF Len(attrs) = 0
       THEN /\ handlers' = Append(handlers, handlers[i])
            /\ UNCHANGED arrA
       ELSE LET lh == handlers[i]
                groups == Clip(lh.groups)
                r == AppendAttrs(arrA, Clip(lh.attributes), attrs, groups)
            IN /\ arrA' = r.heap
               /\ handlers' = Append(handlers, [lh EXCEPT !.attributes = r.slice])
    /\ derivs' = Append(derivs, [parent |-> i, op |-> "attrs", attrs |-> attrs,
                                 name |-> "", groups |-> <<>>, min |-> levelVar])
    /\ UNCHANGED <<growth, arrG, logged, levelVar, record>>

\* Mutant of WithGroup: the name is appended to the receiver's own group list as well.
WithGroupOnReceiver(i, name) ==
    /\ i \in 1..Len(handlers)
    /\ Len(handlers) < 1 + MaxDerived
    /\ LET lh == handlers[i]
           r == GoAppend(arrG, Clip(lh.groups), name, ZeroString)
       IN /\ arrG' = r.heap
          /\ handlers' = Append([handlers EXCEPT ![i].groups = r.slice],
                                [lh EXCEPT !.groups = r.slice])
    /\ derivs' = Append(derivs, [parent |-> i, op |-> "group", attrs |-> <<>>,
                                 name |-> name, groups |-> <<>>, min |-> levelVar])
    /\ UNCHANGED <<growth, arrA, logged, levelVar, record>>

\* func (lh LogHandler) WithGroup(name string) slog.Handler
WithGroup(i, name) ==
    /\ i \in 1..Len(handlers)
    /\ Len(handlers) < 1 + MaxDerived
    /\ IF name = ""
       THEN /\ handlers' = Append(handlers, handlers[i])
            /\ UNCHANGED arrG
       ELSE LET lh == handlers[i]
                r == GoAppend(arrG, Clip(lh.groups), name, ZeroString)
            IN /\ arrG' = r.heap
               /\ handlers' = Append(handlers, [lh EXCEPT !.groups = r.slice])
    /\ derivs' = Append(derivs, [parent |-> i, op |-> "group", attrs |-> <<>>,
                                 name |-> name, groups |-> <<>>, min |-> levelVar])
    /\ UNCHANGED <<growth, arrA, logged, levelVar, record>>

\* Mutant of Enabled: the threshold is always slog.LevelInfo.
EnabledAtInfo(lh, level) == level >= LevelInfo

\* func (lh LogHandler) Enabled(ctx, level) bool
Enabled(lh, level) ==
    LET minLevel == IF lh.leveler # "nil" THEN levelVar ELSE LevelInfo
    IN level >= minLevel

\* func (lh LogHandler) Handle(ctx, record): the LogEvent is built and handed to
\* eventPusher.Notify.
Handle(i, level, msg, inline) ==
    /\ i \in 1..Len(handlers)
    /\ logged' = [handler |-> i, level |-> ToLower[LevelString(level)], msg |-> msg,
                  inline |-> inline, attributes |-> getAttributes(handlers[i], inline)]
    /\ UNCHANGED <<growth, arrA, arrG, handlers, derivs, levelVar>>

\* A log call on a logger built on handler i: the logger asks Enabled and calls
\* Handle only for a record that passes.
LoggerLog(i, level, msg, inline) ==
    /\ i \in 1..Len(handlers)
    /\ IF Enabled(handlers[i], level)
       THEN /\ Handle(i, level, msg, inline)
            /\ record' = [handler |-> i, level |-> level, msg |-> msg, inline |-> inline,
                          notifies |-> 1]
       ELSE /\ record' = [handler |-> i, level |-> level, msg |-> msg, inline |-> inline,
                          notifies |-> 0]
            /\ UNCHANGED <<growth, arrA, arrG, handlers, derivs, logged, levelVar>>

\* LogLevel.Set(level) on the shared level variable.
SetLevel(level) ==
    /\ level # levelVar
    /\ levelVar' = level
    /\ UNCHANGED <<growth, arrA, arrG, handlers, derivs, logged, record>>

LogNext ==
    \/ \E i \in 1..Len(handlers), attrs \in AttrLists :
            WithAttrs(i, attrs) /\ UNCHANGED <<errVars, loopVars, appVars>>
    \/ \E i \in 1..Len(handlers), name \in GroupNames :
            WithGroup(i, name) /\ UNCHANGED <<errVars, loopVars, appVars>>
    \/ \E i \in 1..Len(handlers), inline \in InlineLists :
            LoggerLog(i, LevelInfo, "msg", inline) /\ UNCHANGED <<errVars, loopVars, appVars>>

SpecLog == LogInit /\ [][LogNext]_vars

\* The level threshold at work: the first handler is NewHandler's, with no leveler or
\* with the shared level variable; handlers are derived from it by WithGroup, records
\* of every level are logged and the level variable is set at any time.
LevelInit ==
    /\ ErrParked
    /\ LoopParked
    /\ AppParked
    /\ growth = "exact"
    /\ arrA = <<>>
    /\ arrG = <<>>
    /\ levelVar \in Thresholds
    /\ \E l \in {"nil", "var"} :
          handlers = <<[attributes |-> NilSlice, groups |-> NilSlice, leveler |-> l]>>
    /\ derivs = <<[parent |-> 0, op |-> "root", attrs |-> <<>>, name |-> "",
                   groups |-> <<>>, min |-> levelVar]>>
    /\ logged = NoLog
    /\ record = NoRecord

LevelNext ==
    \/ \E i \in 1..Len(handlers) : WithGroup(i, "g") /\ UNCHANGED <<errVars, loopVars, appVars>>
    \/ \E level \in Thresholds : SetLevel(level) /\ UNCHANGED <<errVars, loopVars, appVars>>
    \/ \E i \in 1..Len(handlers), level \in Levels, msg \in LogMsgs :
            LoggerLog(i, level, msg, <<>>) /\ UNCHANGED <<errVars, loopVars, appVars>>

SpecLevel == LevelInit /\ [][LevelNext]_vars

-----------------------------------------------------------------------------
(* Properties of the log handler, checked under SpecLog.                   *)

\* What a handler holds by construction: its parent's groups and attributes, then
\* its own, each attribute with the group path of the handler it was added on.
RECURSIVE LogicalGroups(_)
LogicalGroups(i) ==
    LET d == derivs[i]
    IN IF d.op = "root" THEN d.groups
       ELSE IF d.op = "group" /\ d.name # "" THEN Append(LogicalGroups(d.parent), d.name)
       ELSE LogicalGroups(d.parent)

RECURSIVE LogicalAttrs(_)
LogicalAttrs(i) ==
    LET d == derivs[i]
    IN IF d.op = "root" THEN d.attrs
       ELSE IF d.op = "attrs"
            THEN LogicalAttrs(d.parent) \o
                 [j \in 1..Len(d.attrs) |->
                    [key |-> d.attrs[j].key, val |-> d.attrs[j].val,
                     groups |-> LogicalGroups(d.parent)]]
       ELSE LogicalAttrs(d.parent)

Siblings(i, j) == i # j /\ derivs[i].parent = derivs[j].parent /\ derivs[i].op # "root"

\* C1: whatever WithGroup / WithAttrs derivations fork from one parent (a parent with
\* spare capacity included), the record a fork emits is built from the parent's
\* attributes and groups plus the fork's own: what a sibling added, before or after,
\* is not in it and replaces none of its entries.
C1_ForksIsolated ==
    /\ logged # NoLog =>
          logged.attributes = BuildMap(LogicalAttrs(logged.handler),
                                       LogicalGroups(logged.handler), logged.inline)
    /\ \A i \in 1..Len(handlers) : \A inline \in InlineLists :
          getAttributes(handlers[i], inline)
              = BuildMap(LogicalAttrs(i), LogicalGroups(i), inline)

C1_Witness ==
    \E i \in 1..Len(handlers), k \in 1..Len(handlers) :
        /\ i < k /\ Siblings(i, k)
        /\ derivs[i].op = derivs[k].op /\ derivs[i] # derivs[k]
        /\ LET parent == handlers[derivs[i].parent]
           IN IF derivs[i].op = "attrs"
              THEN parent.attributes.len < parent.attributes.cap
              ELSE parent.groups.len < parent.groups.cap
        /\ logged.handler = i
        /\ logged.inline # <<>>
        /\ logged.attributes = getAttributes(handlers[i], logged.inline)
        /\ logged.attributes # getAttributes(handlers[k], logged.inline)

\* The attributes that go into one record, in the order getAttributes takes them:
\* the persisted ones as appended, then the record's own under the handler's groups.
Entries(persisted, groups, inline) ==
    persisted \o [j \in 1..Len(inline) |->
                    [key |-> inline[j].key, val |-> inline[j].val, groups |-> groups]]

IsPrefix(p, q) == Len(p) <= Len(q) /\ SubSeq(q, 1, Len(p)) = p

\* What an emitted map holds under key at the nested path.
Absent == [kind |-> "absent", val |-> "", map |-> EmptyAttrMap]

RECURSIVE Lookup(_, _, _)
Lookup(m, path, key) ==
    IF path = <<>>
    THEN IF key \in DOMAIN m THEN m[key] ELSE Absent
    ELSE IF Head(path) \in DOMAIN m /\ m[Head(path)].kind = "map"
         THEN Lookup(m[Head(path)].map, Tail(path), key)
         ELSE Absent

SameSlot(e, f) == e.groups = f.groups /\ e.key = f.key

\* Entry e turns the slot of f into a group, or a group on f's path into a value.
Displaces(e, f) ==
    \/ IsPrefix(Append(f.groups, f.key), e.groups)
    \/ IsPrefix(Append(e.groups, e.key), f.groups)

\* Of two entries with the same key at the same path the map holds the later one,
\* as long as no entry after it takes the slot itself.
LaterWins(m, entries) ==
    \A i \in 1..Len(entries), j \in 1..Len(entries) :
        (/\ i < j
         /\ SameSlot(entries[i], entries[j])
         /\ \A k \in (j+1)..Len(entries) :
                ~SameSlot(entries[k], entries[j]) /\ ~Displaces(entries[k], entries[j]))
        => Lookup(m, entries[j].groups, entries[j].key) = Scalar(entries[j].val)

\* C24: when two attributes resolve to the same key at the same nested path, the
\* emitted map holds the later one: of two persisted attributes the one appended
\* later, and an inline attribute of the record rather than any persisted one.
C24_LaterAttributeWins ==
    /\ logged # NoLog =>
          LaterWins(logged.attributes,
                    Entries(LogicalAttrs(logged.handler), LogicalGroups(logged.handler),
                            logged.inline))
    /\ \A i \in 1..Len(handlers) : \A inline \in InlineLists :
          LaterWins(getAttributes(handlers[i], inline),
                    Entries(ReadAttrs(handlers[i]), ReadStrings(handlers[i].groups), inline))

C24_Witness ==
    /\ logged # NoLog
    /\ LET i == logged.handler
           persisted == ReadAttrs(handlers[i])
           groups == ReadStrings(handlers[i].groups)
       IN /\ \E p \in 1..Len(persisted), q \in 1..Len(persisted) :
                /\ p < q
                /\ SameSlot(persisted[p], persisted[q])
                /\ persisted[p].val # persisted[q].val
                /\ persisted[q].groups = groups
                /\ Lookup(getAttributes(handlers[i], <<>>), groups, persisted[q].key)
                      = Scalar(persisted[q].val)
                /\ \E n \in 1..Len(logged.inline) :
                      /\ logged.inline[n].key = persisted[q].key
                      /\ logged.inline[n].val # persisted[q].val
                      /\ Lookup(logged.attributes, groups, persisted[q].key)
                            = Scalar(logged.inline[n].val)

\* The values of an emitted map, each with the nested path and key it sits at.
RECURSIVE Leaves(_, _)
Leaves(m, path) ==
    UNION {IF m[k].kind = "scalar"
           THEN {[groups |-> path, key |-> k, val |-> m[k].val]}
           ELSE Leaves(m[k].map, Append(path, k)) : k \in DOMAIN m}

\* Entry n is still in the map: no later entry has taken or displaced its slot.
Survives(entries, n) ==
    \A k \in (n+1)..Len(entries) :
        ~SameSlot(entries[k], entries[n]) /\ ~Displaces(entries[k], entries[n])

\* Every entry sits at its own group path, and the map holds nothing else.
PlacedAt(m, entries) ==
    /\ \A n \in 1..Len(entries) :
          Survives(entries, n)
          => Lookup(m, entries[n].groups, entries[n].key) = Scalar(entries[n].val)
    /\ \A leaf \in Leaves(m, <<>>) : \E n \in 1..Len(entries) : entries[n] = leaf

\* C25: in the emitted map every persisted attribute sits at the nested location
\* given by the group path in effect when it was attached (groups entered later on
\* the same chain do not move it), and every inline attribute of the record sits
\* under the emitting handler's full group path.
C25_AttributesPlacedByGroupPath ==
    /\ logged # NoLog =>
          PlacedAt(logged.attributes,
                   Entries(LogicalAttrs(logged.handler), LogicalGroups(logged.handler),
                           logged.inline))
    /\ \A i \in 1..Len(handlers) : \A inline \in InlineLists :
          PlacedAt(getAttributes(handlers[i], inline),
                   Entries(LogicalAttrs(i), LogicalGroups(i), inline))

C25_Witness ==
    /\ logged # NoLog
    /\ logged.inline # <<>>
    /\ LET i == logged.handler
           full == LogicalGroups(i)
           persisted == LogicalAttrs(i)
       IN /\ derivs[i].op = "group" /\ derivs[i].name # ""
          /\ derivs[derivs[i].parent].op = "attrs"
          /\ \E p \in 1..Len(persisted) :
                /\ persisted[p].groups # full
                /\ persisted[p].key = logged.inline[1].key
                /\ Lookup(logged.attributes, persisted[p].groups, persisted[p].key)
                      = Scalar(persisted[p].val)
                /\ Lookup(logged.attributes, full, logged.inline[1].key)
                      = Scalar(logged.inline[1].val)

\* A step that derives a handler.
Derives == Len(handlers') = Len(handlers) + 1

\* C27: WithAttrs and WithGroup never change the handler they are called on: no
\* handler that existed before the derivation is another value after it, and the
\* parent yields the same attribute map for any record as it did before.
C27_DerivationKeepsParent ==
    [][Derives =>
          /\ SubSeq(handlers', 1, Len(handlers)) = handlers
          /\ \A i \in 1..Len(handlers) :
                derivs'[Len(handlers')].parent = i =>
                    \A inline \in InlineLists :
                        getAttributes(handlers[i], inline)' = getAttributes(handlers[i], inline)]_vars

\* A handler with spare capacity has two different children, and the record emitted
\* through it is what the handler yields with both children in existence: only
\* what the handler itself holds.
C27_Witness ==
    /\ logged # NoLog
    /\ logged.inline # <<>>
    /\ LET i == logged.handler
       IN /\ \E k \in 1..Len(handlers), n \in 1..Len(handlers) :
                /\ k < n
                /\ derivs[k].parent = i /\ derivs[k].op = "attrs" /\ derivs[k].attrs # <<>>
                /\ derivs[n].parent = i /\ derivs[n].op = "group" /\ derivs[n].name # ""
                /\ getAttributes(handlers[k], logged.inline) # logged.attributes
                /\ getAttributes(handlers[n], logged.inline) # logged.attributes
          /\ handlers[i].attributes.len < handlers[i].attributes.cap
          /\ handlers[i].groups.len < handlers[i].groups.cap
          /\ logged.attributes = getAttributes(handlers[i], logged.inline)
          /\ logged.attributes = BuildMap(derivs[i].attrs, derivs[i].groups, logged.inline)

\* Entry i is a plain value under a key that entry j, coming later, uses as a group
\* at the same level, and no entry after i sets the plain value again.
ValueThenGroup(entries, i, j) ==
    /\ i < j
    /\ IsPrefix(Append(entries[i].groups, entries[i].key), entries[j].groups)
    /\ \A k \in (i+1)..Len(entries) : ~SameSlot(entries[k], entries[i])

Without(s, i) == SubSeq(s, 1, i - 1) \o SubSeq(s, i + 1, Len(s))

\* The map holds a nested map where the plain value was, the plain value is nowhere in
\* it, and everything else is as if the plain value had never been attached.
GroupReplacesValue(m, entries) ==
    \A i \in 1..Len(entries), j \in 1..Len(entries) :
        ValueThenGroup(entries, i, j) =>
            /\ Lookup(m, entries[i].groups, entries[i].key).kind = "map"
            /\ \A leaf \in Leaves(m, <<>>) : ~SameSlot(leaf, entries[i])
            /\ Survives(entries, j) =>
                  Lookup(m, entries[j].groups, entries[j].key) = Scalar(entries[j].val)
            /\ m = AddPersisted(EmptyAttrMap, Without(entries, i))

\* C35: when a group name on an attribute's path is already in the map being built as
\* a plain value (a persisted attribute with key g, then an attribute under group g at
\* the same level), the value is replaced by a nested map and the emitted record holds
\* only the nested map under g; no other key is affected.
C35_GroupReplacesScalar ==
    logged # NoLog =>
        GroupReplacesValue(logged.attributes,
                           Entries(LogicalAttrs(logged.handler),
                                   LogicalGroups(logged.handler), logged.inline))

\* With("g", 1, "a", 3), then WithGroup("g"), then a record with its own attribute:
\* the record holds the nested map under g and the untouched a beside it.
C35_Witness ==
    /\ logged # NoLog
    /\ logged.inline # <<>>
    /\ LET entries == Entries(LogicalAttrs(logged.handler), LogicalGroups(logged.handler),
                              logged.inline)
       IN \E i \in 1..Len(entries), n \in 1..Len(entries) :
             /\ ValueThenGroup(entries, i, Len(entries))
             /\ n # i /\ entries[n].groups = entries[i].groups
             /\ Lookup(logged.attributes, entries[i].groups, entries[i].key)
                   = MapVal(Put(EmptyAttrMap, logged.inline[1].key,
                                Scalar(logged.inline[1].val)))
             /\ Lookup(logged.attributes, entries[n].groups, entries[n].key)
                   = Scalar(entries[n].val)

-----------------------------------------------------------------------------
(* Properties of the level threshold, checked under SpecLevel.             *)

\* The threshold a handler filters with: the shared level variable's current value,
\* or Info for a handler made without a leveler.
Threshold(i) == IF handlers[i].leveler = "nil" THEN LevelInfo ELSE levelVar

\* The lowercased name of a level.
LowerName(l) ==
    CASE l = LevelInfo - 4 -> "debug"
      [] l = LevelInfo -> "info"
      [] l = LevelInfo + 2 -> "info+2"
      [] l = LevelInfo + 4 -> "warn"

\* C26: a record whose level is below the current value of the shared level
\* threshold produces no LogEvent and no Notify call; a record at or above it
\* produces exactly one Notify call, carrying a LogEvent with the lowercased level
\* name and the record's message. The threshold is the one in force at the log
\* call, whatever it was when the handler was derived.
C26_ThresholdReadAtEachCall ==
    [][record' # record =>
          LET r == record'
          IN IF r.level < Threshold(r.handler)
             THEN r.notifies = 0 /\ logged' = logged
             ELSE /\ r.notifies = 1
                  /\ logged'.handler = r.handler
                  /\ logged'.level = LowerName(r.level)
                  /\ logged'.msg = r.msg]_vars

\* A handler derived while the threshold was Debug has emitted a debug record; the
\* threshold is Warn now and the handler's next debug record has been dropped.
C26_Witness ==
    /\ record.handler > 1
    /\ handlers[record.handler].leveler = "var"
    /\ derivs[record.handler].min = LevelInfo - 4
    /\ levelVar = LevelInfo + 4
    /\ logged.handler = record.handler
    /\ logged.level = "debug"
    /\ record.level = LevelInfo - 4
    /\ record.msg # logged.msg
    /\ record.notifies = 0


-----------------------------------------------------------------------------
(* Properties of the tracker's initial state and of the map behind it.     *)

\* What NewHandler was given, as a map: the empty one for nil.
Seeded == IF seed.nil THEN EmptyMap ELSE seed.map

\* A call that returned before hist[j] has had an event concerning k accepted.
AcceptedBefore(j, k) ==
    \E i \in 1..(j - 1) :
        hist[i].ncalls = 1 /\ hist[i].res = NilErr /\ k \in Requested(hist[i])

\* C31: a Handler created with a map of unresolved errors starts with exactly those
\* kinds flagged with those messages, and a nil map gives the empty state: as long as
\* no event concerning a seeded kind has been accepted, NotifyError for that kind with
\* the seeded message sends nothing and NotifyResolution for it sends a
\* ResolutionEvent.
C31_SeededStateAtStart ==
    /\ (\A i \in 1..Len(sent) : ~sent[i].ok) => errors = Seeded
    /\ seed.nil => Seeded = EmptyMap
    /\ \A j \in 1..Len(hist) : \A k \in DOMAIN Seeded :
          ~AcceptedBefore(j, k) =>
              /\ IsError(hist[j], k, Seeded[k]) =>
                    hist[j].ncalls = 0 /\ hist[j].res = NilErr
              /\ (IsResolution(hist[j]) /\ k \in Requested(hist[j])) =>
                    /\ hist[j].ncalls = 1
                    /\ sent[hist[j].at].ev = ResolutionEvent(hist[j].kinds, hist[j].msg)

\* On a tracker seeded with a kind, NotifyError with the seeded message has returned
\* without a send, and then NotifyResolution for the kind has sent its event.
C31_Witness ==
    /\ ~seed.nil
    /\ Len(hist) = 2
    /\ Len(sent) = 1
    /\ \E k \in DOMAIN seed.map :
          /\ IsError(hist[1], k, seed.map[k])
          /\ hist[1].ncalls = 0
          /\ IsResolution(hist[2]) /\ k \in Requested(hist[2])
          /\ hist[2].ncalls = 1 /\ hist[2].res = NilErr
          /\ sent[1].ev = ResolutionEvent(hist[2].kinds, hist[2].msg)
          /\ k \notin DOMAIN errors

\* The accepted events that concern kind k, by their place in sent.
AcceptedOn(k) == {i \in 1..Len(sent) : sent[i].ok /\ k \in Range(sent[i].ev.kinds)}

Greatest(S) == CHOOSE i \in S : \A j \in S : j <= i

\* C33: under every interleaving of concurrent NotifyError and NotifyResolution calls,
\* with a notifier that may fail, the map holds message m for kind K exactly when the
\* most recent accepted event concerning K is the ErrorEvent (K, m), or K was seeded
\* with m and no event concerning K has been accepted since; K is absent exactly when
\* that event is a ResolutionEvent listing K, or there is none and K was not seeded.
C33_MapFollowsLastAcceptedEvent ==
    \A k \in Kinds :
        IF AcceptedOn(k) = {}
        THEN /\ k \in DOMAIN errors <=> k \in DOMAIN Seeded
             /\ k \in DOMAIN errors => errors[k] = Seeded[k]
        ELSE LET last == sent[Greatest(AcceptedOn(k))].ev
             IN IF last.type = "error"
                THEN k \in DOMAIN errors /\ errors[k] = last.msg
                ELSE k \notin DOMAIN errors

\* Two overlapping calls: an error on a seeded kind with a new message is
\* accepted, a resolution listing the kind is refused by the notifier, and the map
\* holds the new message while another seeded kind still holds its own.
C33_Witness ==
    /\ Len(hist) = 2 /\ Len(sent) = 2
    /\ hist[2].began = 0
    /\ \E k \in DOMAIN Seeded, other \in DOMAIN Seeded :
          /\ k # other
          /\ sent[1].ok /\ sent[1].ev.type = "error" /\ sent[1].ev.kinds = <<k>>
          /\ sent[1].ev.msg # Seeded[k]
          /\ ~sent[2].ok /\ sent[2].ev.type = "resolution" /\ k \in Range(sent[2].ev.kinds)
          /\ errors[k] = sent[1].ev.msg
          /\ other \in DOMAIN errors /\ errors[other] = Seeded[other]

\* C34: the error state is owned by the tracker alone: after NewHandler has returned,
\* which kinds are flagged, and with which message, changes only in NotifyError and
\* NotifyResolution, by the goroutine that holds the mutex; a change the caller makes
\* to the map it passed in does not change it.
C34_OnlyTrackerChangesState ==
    [][errors' # errors =>
          \E p \in Procs : pc[p] = "notify" /\ lock = p /\ pc'[p] = "idle"]_vars

-----------------------------------------------------------------------------
(* ConnectorManagerClient: call / retryDo, the tasks producer and Start.   *)

taskChannelBufferSize == 10
InvalidAPIKeyCode == 1
RevokedAPIKeyCode == 2
StatusOK == 200
StatusUnauthorized == 401
StatusBadGateway == 502

\* Status codes that call() handles in its default branch.
OtherStatuses == {500}

\* The errors call() can return. errors.Is(err, ErrUnauthorizedConnector) holds for
\* the joined error built on a 401 and for no other.
NoErr == "nil"
ErrUnauthorizedConnector == "unauthorized"
ErrHTTP == "http error"
ErrBadGateway == "bad gateway"
ErrTransport == "transport error"
ErrContext == "context canceled"
ErrDecode == "json decode error"
ErrRead == "response body read error"

\* Task.Action values and, for a restore task, what Task.Content holds.
Actions == {"update-config", "stop", "start", "restore", "other"}
TaskShapes ==
    {[action |-> a, content |-> ""] : a \in Actions \ {"restore"}}
    \cup {[action |-> "restore", content |-> c] : c \in {"not json", "{}", "{id: a}"}}

\* The batches the manager can return: tasks numbered in the order they are served.
\* Batches of two are drawn from the actions that take part in the connector's state.
PairShapes == {t \in TaskShapes : t.action \in {"update-config", "stop"}}
NewTask(id, t) == [id |-> id, action |-> t.action, content |-> t.content]
Batches(from) ==
    {<<>>}
    \cup {<<NewTask(from + 1, t)>> : t \in TaskShapes}
    \cup {<<NewTask(from + 1, t), NewTask(from + 2, u)>> : t \in PairShapes, u \in PairShapes}

\* A first batch larger than the channel's buffer.
Burst == [i \in 1..(taskChannelBufferSize + 1) |-> NewTask(i, [action |-> "other", content |-> ""])]

\* The raw configuration the manager can return.
Configs == {"cfg1", "cfg2"}

\* What one attempt of httpClient.Do can end in: no response (the request body read by
\* the transport or not), or a response with a status and a body; io.ReadAll of the
\* body can fail ("read error").
Resp(status, bodyRead, body, payload) ==
    [status |-> status, sent |-> bodyRead, body |-> body, payload |-> payload]
LocalFailure == Resp(0, FALSE, "", <<>>)
Payloads(path, from) ==
    IF path = "tasks"
    THEN {b \in Batches(from) : b = <<>> \/ from + Len(b) <= MaxTasks}
         \cup (IF from = 0 THEN {Burst} ELSE {})
    ELSE IF path = "config" THEN {<<c>> : c \in Configs}
    ELSE {<<>>}
Outcomes(path, from) ==
    {Resp(0, b, "", <<>>) : b \in BOOLEAN}
    \cup {Resp(StatusBadGateway, TRUE, "", <<>>)}
    \cup {Resp(st, TRUE, "", <<>>) : st \in OtherStatuses}
    \cup {Resp(StatusUnauthorized, TRUE, b, <<>>) :
              b \in {"code 1", "code 2", "code 3", "not json"}}
    \cup {Resp(StatusOK, TRUE, b, <<>>) : b \in {"not json", "empty", "empty unknown length"}}
    \cup {Resp(StatusOK, TRUE, "json", p) : p \in Payloads(path, from)}
    \cup {Resp(st, TRUE, "read error", <<>>) :
              st \in {StatusOK, StatusUnauthorized} \cup OtherStatuses}

\* json.Unmarshal(respBody, apiError); apiError.Code (0 when the body does not parse).
ParseCode(body) ==
    IF body = "code 1" THEN InvalidAPIKeyCode
    ELSE IF body = "code 2" THEN RevokedAPIKeyCode
    ELSE IF body = "code 3" THEN 3
    ELSE 0

\* Mutant of Retryable: every server error is retried, not only a 502.
RetryableServerError(r) == r.status = 0 \/ r.status >= 500

\* retryDo's operation returns an error, so backoff.Retry goes on, when Do failed or
\* the response is a 502.
Retryable(r) == r.status = 0 \/ r.status = StatusBadGateway

\* Mutant of Classify: a 401 whose body does not parse is returned as a plain HTTP error.
ClassifyParsed401(r, hasTarget) ==
    IF r.body = "read error" THEN ErrRead
    ELSE IF r.status = StatusOK
    THEN IF ~hasTarget \/ r.body = "empty" \/ r.body = "json" THEN NoErr ELSE ErrDecode
    ELSE IF r.status = StatusUnauthorized /\ ParseCode(r.body) # 0 THEN ErrUnauthorizedConnector
    ELSE ErrHTTP

\* call(): io.ReadAll, the switch on resp.StatusCode, then the decoding of the body
\* into res.
Classify(r, hasTarget) ==
    IF r.body = "read error" THEN ErrRead
    ELSE IF r.status = StatusOK
    THEN IF ~hasTarget \/ r.body = "empty" \/ r.body = "json" THEN NoErr ELSE ErrDecode
    ELSE IF r.status = StatusUnauthorized THEN ErrUnauthorizedConnector
    ELSE ErrHTTP

\* The res argument: getTasks and getConfig pass a target, Notify passes nil.
HasTarget(path) == path # "events"

\* call() builds the request and enters retryDo.
StartCall(path) == [NoCall EXCEPT !.st = "do", !.path = path]

LoopInit ==
    /\ ErrParked
    /\ LogParked
    /\ AppParked
    /\ ctxDone = FALSE
    /\ queue = <<>>
    /\ closed = FALSE
    /\ prod = [pc |-> "select", batch |-> <<>>, failed |-> FALSE]
    /\ cons = [pc |-> "select", task |-> NoTask, taskError |-> ""]
    /\ http = [g \in Goroutines |-> NoCall]
    /\ stopped \in BOOLEAN
    /\ connCalls = <<>>
    /\ acks = <<>>
    /\ served = 0
    /\ nreq = 0
    /\ seen401 = FALSE

\* The context given to Start is cancelled.
Cancel ==
    /\ ~ctxDone
    /\ ctxDone' = TRUE
    /\ UNCHANGED <<queue, closed, prod, cons, http, stopped, connCalls, acks, served,
                   nreq, seen401>>

\* One attempt inside retryDo: c.httpClient.Do(req). With the context cancelled Do
\* fails without a response. bodyRead records that an earlier attempt has consumed the
\* request's body reader; whether the transport rewinds it (GetBody) or the attempt
\* fails depends on the transport's connection pool, so both outcomes stay possible.
\* Once MaxRequests attempts have reached the network, every further attempt fails
\* locally (the network is down from then on), so that no call is left hanging.
Do(g, r) ==
    /\ http[g].st = "do"
    /\ (ctxDone \/ nreq = MaxRequests) => r = LocalFailure
    /\ nreq' = IF nreq < MaxRequests THEN nreq + 1 ELSE nreq
    /\ seen401' = (seen401 \/ (r.status = StatusUnauthorized /\ r.body # "read error"))
    /\ served' = IF r.status = StatusOK /\ http[g].path = "tasks" THEN served + Len(r.payload)
                 ELSE served
    /\ http' = [http EXCEPT ![g] =
          [st |-> IF Retryable(r) THEN "backoff" ELSE "done",
           path |-> @.path,
           tries |-> @.tries + 1,
           bodyRead |-> @.bodyRead \/ r.sent,
           status |-> r.status,
           respRead |-> r.status # 0 /\ r.body # "read error",
           respBody |-> IF r.status = StatusOK THEN r.body ELSE "",
           code |-> IF r.status = StatusUnauthorized THEN ParseCode(r.body) ELSE 0,
           payload |-> IF Classify(r, HasTarget(@.path)) = NoErr THEN r.payload ELSE <<>>,
           err |-> IF r.status = 0 THEN ErrTransport
                   ELSE IF r.status = StatusBadGateway THEN ErrBadGateway
                   ELSE Classify(r, HasTarget(@.path))]]
    /\ UNCHANGED <<ctxDone, queue, closed, prod, cons, stopped, connCalls, acks>>

\* backoff.Retry after a failed attempt: it returns the context's error when the
\* context is cancelled, the last error when the 3 s budget is used up, and otherwise
\* waits and tries again.
Backoff(g, again) ==
    /\ http[g].st = "backoff"
    /\ http' = [http EXCEPT ![g] =
          IF ctxDone THEN [@ EXCEPT !.st = "done", !.err = ErrContext]
          ELSE IF again /\ nreq < MaxRequests THEN [@ EXCEPT !.st = "do"]
          ELSE [@ EXCEPT !.st = "done"]]
    /\ UNCHANGED <<ctxDone, queue, closed, prod, cons, stopped, connCalls, acks, served,
                   nreq, seen401>>

\* tasks(): the top of the producer's loop. With the context done it returns (the
\* deferred close runs); otherwise it calls getTasks.
ProdSelect ==
    /\ prod.pc = "select"
    /\ IF ctxDone
       THEN /\ prod' = [prod EXCEPT !.pc = "done"]
            /\ closed' = TRUE
            /\ UNCHANGED http
       ELSE /\ prod' = [prod EXCEPT !.pc = "fetch"]
            /\ http' = [http EXCEPT !["prod"] = StartCall("tasks")]
            /\ UNCHANGED closed
    /\ UNCHANGED <<ctxDone, queue, cons, stopped, connCalls, acks, served, nreq, seen401>>

\* Mutant of ProdFetchReturn: an unauthorized getTasks is logged like any other error.
ProdFetchReturnKeepsFetching ==
    /\ prod.pc = "fetch"
    /\ http["prod"].st = "done"
    /\ LET err == http["prod"].err
           batch == http["prod"].payload
       IN IF err # NoErr
          THEN prod' = [prod EXCEPT !.pc = "select", !.failed = TRUE] /\ UNCHANGED closed
          ELSE IF batch = <<>>
          THEN prod' = [prod EXCEPT !.pc = "select"] /\ UNCHANGED closed
          ELSE prod' = [prod EXCEPT !.pc = "push", !.batch = batch] /\ UNCHANGED closed
    /\ http' = [http EXCEPT !["prod"] = NoCall]
    /\ UNCHANGED <<ctxDone, queue, cons, stopped, connCalls, acks, served, nreq, seen401>>

\* Mutant of ProdFetchReturn: the producer returns on any error of getTasks.
ProdFetchReturnAnyError ==
    /\ prod.pc = "fetch"
    /\ http["prod"].st = "done"
    /\ LET err == http["prod"].err
           batch == http["prod"].payload
       IN IF err # NoErr
          THEN prod' = [prod EXCEPT !.pc = "done"] /\ closed' = TRUE
          ELSE IF batch = <<>>
          THEN prod' = [prod EXCEPT !.pc = "select"] /\ UNCHANGED closed
          ELSE prod' = [prod EXCEPT !.pc = "push", !.batch = batch] /\ UNCHANGED closed
    /\ http' = [http EXCEPT !["prod"] = NoCall]
    /\ UNCHANGED <<ctxDone, queue, cons, stopped, connCalls, acks, served, nreq, seen401>>

\* tasks(): getTasks has returned. Unauthorized: return and close the channel; another
\* error: log and continue; otherwise push the tasks one by one.
ProdFetchReturn ==
    /\ prod.pc = "fetch"
    /\ http["prod"].st = "done"
    /\ LET err == http["prod"].err
           batch == http["prod"].payload
       IN IF err = ErrUnauthorizedConnector
          THEN prod' = [prod EXCEPT !.pc = "done"] /\ closed' = TRUE
          ELSE IF err # NoErr
          THEN prod' = [prod EXCEPT !.pc = "select", !.failed = TRUE] /\ UNCHANGED closed
          ELSE IF batch = <<>>
          THEN prod' = [prod EXCEPT !.pc = "select"] /\ UNCHANGED closed
          ELSE prod' = [prod EXCEPT !.pc = "push", !.batch = batch] /\ UNCHANGED closed
    /\ http' = [http EXCEPT !["prod"] = NoCall]
    /\ UNCHANGED <<ctxDone, queue, cons, stopped, connCalls, acks, served, nreq, seen401>>

\* Mutant of ProdPush: the batch is pushed from its end.
ProdPushReversed ==
    /\ prod.pc = "push"
    /\ Len(queue) < taskChannelBufferSize
    /\ queue' = Append(queue, prod.batch[Len(prod.batch)])
    /\ prod' = IF Len(prod.batch) = 1 THEN [prod EXCEPT !.pc = "select", !.batch = <<>>]
               ELSE [prod EXCEPT !.batch = SubSeq(@, 1, Len(@) - 1)]
    /\ UNCHANGED <<ctxDone, closed, cons, http, stopped, connCalls, acks, served, nreq,
                   seen401>>

\* Mutant of ProdPush: the push never waits for room in the buffer.
ProdPushUnbounded ==
    /\ prod.pc = "push"
    /\ queue' = Append(queue, Head(prod.batch))
    /\ prod' = IF Len(prod.batch) = 1 THEN [prod EXCEPT !.pc = "select", !.batch = <<>>]
               ELSE [prod EXCEPT !.batch = Tail(@)]
    /\ UNCHANGED <<ctxDone, closed, cons, http, stopped, connCalls, acks, served, nreq,
                   seen401>>

\* tasks(): tasksC <- t, which blocks while the buffer is full.
ProdPush ==
    /\ prod.pc = "push"
    /\ Len(queue) < taskChannelBufferSize
    /\ queue' = Append(queue, Head(prod.batch))
    /\ prod' = IF Len(prod.batch) = 1 THEN [prod EXCEPT !.pc = "select", !.batch = <<>>]
               ELSE [prod EXCEPT !.batch = Tail(@)]
    /\ UNCHANGED <<ctxDone, closed, cons, http, stopped, connCalls, acks, served, nreq,
                   seen401>>

\* Mutant of Ack: the event never carries the error text.
AckWithoutError(task, taskError) ==
    /\ acks' = Append(acks, [id |-> task.id, error |-> ""])
    /\ http' = [http EXCEPT !["cons"] = StartCall("events")]
    /\ cons' = [pc |-> "ack", task |-> task, taskError |-> taskError]

\* Notify(ctx, TaskEvent{TaskID, Error}): the event is tagged and posted to "events".
Ack(task, taskError) ==
    /\ acks' = Append(acks, [id |-> task.id, error |-> taskError])
    /\ http' = [http EXCEPT !["cons"] = StartCall("events")]
    /\ cons' = [pc |-> "ack", task |-> task, taskError |-> taskError]

\* json.Unmarshal(task.Content, restoreAction): whether it succeeds, and the ID it
\* leaves in the RestoreActionContent ("" when the content has no id or an empty one).
DecodeRestore(content) ==
    IF content = "{id: a}" THEN [ok |-> TRUE, id |-> "a"]
    ELSE IF content = "{}" THEN [ok |-> TRUE, id |-> ""]
    ELSE [ok |-> FALSE, id |-> ""]

\* Mutant of Dispatch: Restore is called with whatever id the content decodes to.
DispatchRestoresAnyId(task, ok) ==
    IF task.action = "stop" /\ stopped
    THEN [call |-> <<>>, error |-> "already stopped", stopped |-> stopped]
    ELSE IF task.action = "start" /\ ~stopped
    THEN [call |-> <<>>, error |-> "already started", stopped |-> stopped]
    ELSE IF task.action \in {"stop", "start"}
    THEN [call |-> <<[task |-> task.id,
                      method |-> IF task.action = "stop" THEN "Stop" ELSE "Start",
                      arg |-> "", ok |-> ok]>>,
          error |-> IF ok THEN "" ELSE "error",
          stopped |-> IF ok THEN task.action = "stop" ELSE stopped]
    ELSE IF task.action = "restore" /\ DecodeRestore(task.content).ok
    THEN [call |-> <<[task |-> task.id, method |-> "Restore",
                      arg |-> DecodeRestore(task.content).id, ok |-> ok]>>,
          error |-> IF ok THEN "" ELSE "error", stopped |-> stopped]
    ELSE [call |-> <<>>,
          error |-> IF task.action = "other" THEN "" ELSE "error",
          stopped |-> stopped]

\* Mutant of Dispatch: an unknown action is an error.
DispatchRejectsUnknown(task, ok) ==
    IF task.action = "stop" /\ stopped
    THEN [call |-> <<>>, error |-> "already stopped", stopped |-> stopped]
    ELSE IF task.action = "start" /\ ~stopped
    THEN [call |-> <<>>, error |-> "already started", stopped |-> stopped]
    ELSE IF task.action \in {"stop", "start"}
    THEN [call |-> <<[task |-> task.id,
                      method |-> IF task.action = "stop" THEN "Stop" ELSE "Start",
                      arg |-> "", ok |-> ok]>>,
          error |-> IF ok THEN "" ELSE "error",
          stopped |-> IF ok THEN task.action = "stop" ELSE stopped]
    ELSE IF task.action = "restore" /\ DecodeRestore(task.content).id # ""
    THEN [call |-> <<[task |-> task.id, method |-> "Restore",
                      arg |-> DecodeRestore(task.content).id, ok |-> ok]>>,
          error |-> IF ok THEN "" ELSE "error", stopped |-> stopped]
    ELSE [call |-> <<>>, error |-> "error", stopped |-> stopped]

\* Mutant of Dispatch: an error returned by the Connector is dropped.
DispatchDropsError(task, ok) ==
    IF task.action = "stop" /\ ~stopped
    THEN [call |-> <<[task |-> task.id, method |-> "Stop", arg |-> "", ok |-> ok]>>,
          error |-> "", stopped |-> IF ok THEN TRUE ELSE stopped]
    ELSE IF task.action = "start" /\ stopped
    THEN [call |-> <<[task |-> task.id, method |-> "Start", arg |-> "", ok |-> ok]>>,
          error |-> "", stopped |-> IF ok THEN FALSE ELSE stopped]
    ELSE IF task.action = "restore" /\ task.content \notin {"not json", "{}"}
    THEN [call |-> <<[task |-> task.id, method |-> "Restore",
                      arg |-> DecodeRestore(task.content).id, ok |-> ok]>>,
          error |-> "", stopped |-> stopped]
    ELSE [call |-> <<>>,
          error |-> IF task.action = "other" THEN "" ELSE "error",
          stopped |-> stopped]

\* Mutant of Dispatch: Stop and Start are called whatever Status() returns.
DispatchWithoutStatus(task, ok) ==
    IF task.action \in {"stop", "start"}
    THEN [call |-> <<[task |-> task.id,
                      method |-> IF task.action = "stop" THEN "Stop" ELSE "Start",
                      arg |-> "", ok |-> ok]>>,
          error |-> IF ok THEN "" ELSE "error",
          stopped |-> IF ok THEN task.action = "stop" ELSE stopped]
    ELSE IF task.action = "restore" /\ task.content \notin {"not json", "{}"}
    THEN [call |-> <<[task |-> task.id, method |-> "Restore",
                      arg |-> DecodeRestore(task.content).id, ok |-> ok]>>,
          error |-> IF ok THEN "" ELSE "error", stopped |-> stopped]
    ELSE [call |-> <<>>,
          error |-> IF task.action = "other" THEN "" ELSE "error",
          stopped |-> stopped]

\* Start: the switch on task.Action for stop, start, restore and unknown actions:
\* the Connector call made, if any, and the resulting taskError.
Dispatch(task, ok) ==
    IF task.action = "stop"
    THEN IF stopped THEN [call |-> <<>>, error |-> "already stopped", stopped |-> stopped]
         ELSE [call |-> <<[task |-> task.id, method |-> "Stop", arg |-> "", ok |-> ok]>>,
               error |-> IF ok THEN "" ELSE "error stopping connector",
               stopped |-> IF ok THEN TRUE ELSE stopped]
    ELSE IF task.action = "start"
    THEN IF ~stopped THEN [call |-> <<>>, error |-> "already started", stopped |-> stopped]
         ELSE [call |-> <<[task |-> task.id, method |-> "Start", arg |-> "", ok |-> ok]>>,
               error |-> IF ok THEN "" ELSE "error start connector",
               stopped |-> IF ok THEN FALSE ELSE stopped]
    ELSE IF task.action = "restore"
    THEN IF ~DecodeRestore(task.content).ok
         THEN [call |-> <<>>, error |-> "error reading restore task", stopped |-> stopped]
         ELSE IF DecodeRestore(task.content).id = ""
         THEN [call |-> <<>>, error |-> "id not provided", stopped |-> stopped]
         ELSE [call |-> <<[task |-> task.id, method |-> "Restore",
                           arg |-> DecodeRestore(task.content).id, ok |-> ok]>>,
               error |-> IF ok THEN "" ELSE "error restoring element",
               stopped |-> stopped]
    ELSE [call |-> <<>>, error |-> "", stopped |-> stopped]

\* Start: a task is received from the channel. update-config calls getConfig; the
\* other actions are handled at once and the task is acknowledged.
ConsReceive(ok) ==
    /\ cons.pc = "select"
    /\ queue # <<>>
    /\ queue' = Tail(queue)
    /\ LET task == Head(queue)
       IN IF task.action = "update-config"
          THEN /\ cons' = [pc |-> "config", task |-> task, taskError |-> ""]
               /\ http' = [http EXCEPT !["cons"] = StartCall("config")]
               /\ UNCHANGED <<stopped, connCalls, acks>>
          ELSE LET d == Dispatch(task, ok)
               IN /\ stopped' = d.stopped
                  /\ connCalls' = connCalls \o d.call
                  /\ Ack(task, d.error)
    /\ UNCHANGED <<ctxDone, closed, prod, served, nreq, seen401>>

\* Mutant of ConsConfigReturn: Configure is called even when getConfig failed.
ConsConfigReturnAlwaysConfigures(ok) ==
    /\ cons.pc = "config"
    /\ http["cons"].st = "done"
    /\ connCalls' = Append(connCalls,
            [task |-> cons.task.id, method |-> "Configure",
             arg |-> http["cons"].payload, ok |-> ok])
    /\ Ack(cons.task, IF http["cons"].err # NoErr THEN "error cannot get updated config"
                      ELSE IF ok THEN "" ELSE "error reconfiguring connector")
    /\ UNCHANGED <<ctxDone, queue, closed, prod, stopped, served, nreq, seen401>>

\* Start: getConfig has returned. An error becomes the taskError; otherwise
\* connector.Configure(ctx, config) is called. Then the task is acknowledged.
ConsConfigReturn(ok) ==
    /\ cons.pc = "config"
    /\ http["cons"].st = "done"
    /\ IF http["cons"].err # NoErr
       THEN /\ Ack(cons.task, "error cannot get updated config")
            /\ UNCHANGED connCalls
       ELSE /\ connCalls' = Append(connCalls,
                    [task |-> cons.task.id, method |-> "Configure",
                     arg |-> http["cons"].payload, ok |-> ok])
            /\ Ack(cons.task, IF ok THEN "" ELSE "error reconfiguring connector")
    /\ UNCHANGED <<ctxDone, queue, closed, prod, stopped, served, nreq, seen401>>

\* Mutant of ConsAckReturn: a task whose acknowledgement failed is handled again.
ConsAckReturnRequeues ==
    /\ cons.pc = "ack"
    /\ http["cons"].st = "done"
    /\ cons' = [pc |-> IF http["cons"].err = ErrUnauthorizedConnector THEN "done" ELSE "select",
                task |-> NoTask, taskError |-> ""]
    /\ queue' = IF http["cons"].err \in {NoErr, ErrUnauthorizedConnector} THEN queue
                ELSE <<cons.task>> \o queue
    /\ http' = [http EXCEPT !["cons"] = NoCall]
    /\ UNCHANGED <<ctxDone, closed, prod, stopped, connCalls, acks, served, nreq, seen401>>

\* Mutant of ConsAckReturn: Start returns on any error of Notify.
ConsAckReturnAnyError ==
    /\ cons.pc = "ack"
    /\ http["cons"].st = "done"
    /\ cons' = [pc |-> IF http["cons"].err # NoErr THEN "done" ELSE "select",
                task |-> NoTask, taskError |-> ""]
    /\ http' = [http EXCEPT !["cons"] = NoCall]
    /\ UNCHANGED <<ctxDone, queue, closed, prod, stopped, connCalls, acks, served, nreq,
                   seen401>>

\* Start: Notify has returned. Unauthorized: Start returns; another error is logged;
\* then the loop goes on.
ConsAckReturn ==
    /\ cons.pc = "ack"
    /\ http["cons"].st = "done"
    /\ cons' = [pc |-> IF http["cons"].err = ErrUnauthorizedConnector THEN "done" ELSE "select",
                task |-> NoTask, taskError |-> ""]
    /\ http' = [http EXCEPT !["cons"] = NoCall]
    /\ UNCHANGED <<ctxDone, queue, closed, prod, stopped, connCalls, acks, served, nreq,
                   seen401>>

\* Mutant of ConsClosed: Start returns as soon as the channel is closed, whatever the
\* channel still holds.
ConsClosedLeavesTasks ==
    /\ cons.pc = "select"
    /\ closed
    /\ cons' = [cons EXCEPT !.pc = "done"]
    /\ UNCHANGED <<ctxDone, queue, closed, prod, http, stopped, connCalls, acks, served,
                   nreq, seen401>>

\* Start: the tasks channel is closed and empty: Start returns.
ConsClosed ==
    /\ cons.pc = "select"
    /\ queue = <<>>
    /\ closed
    /\ cons' = [cons EXCEPT !.pc = "done"]
    /\ UNCHANGED <<ctxDone, queue, closed, prod, http, stopped, connCalls, acks, served,
                   nreq, seen401>>

\* Start: <-ctx.Done() is chosen by the select: Start returns.
ConsCtxDone ==
    /\ cons.pc = "select"
    /\ ctxDone
    /\ cons' = [cons EXCEPT !.pc = "done"]
    /\ UNCHANGED <<ctxDone, queue, closed, prod, http, stopped, connCalls, acks, served,
                   nreq, seen401>>

LoopNext ==
    \/ Cancel /\ UNCHANGED <<errVars, logVars, appVars>>
    \/ \E g \in Goroutines : \E r \in Outcomes(http[g].path, served) :
            Do(g, r) /\ UNCHANGED <<errVars, logVars, appVars>>
    \/ \E g \in Goroutines, again \in BOOLEAN : Backoff(g, again) /\ UNCHANGED <<errVars, logVars, appVars>>
    \/ ProdSelect /\ UNCHANGED <<errVars, logVars, appVars>>
    \/ ProdFetchReturn /\ UNCHANGED <<errVars, logVars, appVars>>
    \/ ProdPush /\ UNCHANGED <<errVars, logVars, appVars>>
    \/ \E ok \in BOOLEAN : ConsReceive(ok) /\ UNCHANGED <<errVars, logVars, appVars>>
    \/ \E ok \in BOOLEAN : ConsConfigReturn(ok) /\ UNCHANGED <<errVars, logVars, appVars>>
    \/ ConsAckReturn /\ UNCHANGED <<errVars, logVars, appVars>>
    \/ ConsClosed /\ UNCHANGED <<errVars, logVars, appVars>>
    \/ ConsCtxDone /\ UNCHANGED <<errVars, logVars, appVars>>

SpecLoop == LoopInit /\ [][LoopNext]_vars

\* The specification under which termination is checked. The manager serves a
\* narrower choice of batches here: the large first batch, or single tasks that are
\* not restore tasks; the client's steps are the same.
LiveOutcomes(path, from) ==
    {r \in Outcomes(path, from) :
        path = "tasks" =>
            \/ r.payload = Burst
            \/ Len(r.payload) <= 1 /\ \A i \in 1..Len(r.payload) : r.payload[i].action # "restore"}

\* The steps of each goroutine. The Go scheduler runs a goroutine that can take a step,
\* and an HTTP attempt ends, in a response or in an error: each goroutine's steps are
\* weakly fair. The cancellation of the context is not.
ProdNext ==
    /\ \/ ProdSelect
       \/ ProdFetchReturn
       \/ ProdPush
       \/ \E r \in LiveOutcomes(http["prod"].path, served) : Do("prod", r)
       \/ \E again \in BOOLEAN : Backoff("prod", again)
    /\ UNCHANGED <<errVars, logVars, appVars>>
ConsNext ==
    /\ \/ \E ok \in BOOLEAN : ConsReceive(ok)
       \/ \E ok \in BOOLEAN : ConsConfigReturn(ok)
       \/ ConsAckReturn
       \/ ConsClosed
       \/ ConsCtxDone
       \/ \E r \in LiveOutcomes(http["cons"].path, served) : Do("cons", r)
       \/ \E again \in BOOLEAN : Backoff("cons", again)
    /\ UNCHANGED <<errVars, logVars, appVars>>

LiveInit == LoopInit /\ ~stopped
LiveNext ==
    \/ Cancel /\ UNCHANGED <<errVars, logVars, appVars>>
    \/ ProdNext
    \/ ConsNext

SpecLoopFair == LiveInit /\ [][LiveNext]_vars /\ WF_vars(ProdNext) /\ WF_vars(ConsNext)

-----------------------------------------------------------------------------
(* ConnectorManagerClient.Notify, called by the event handlers and by any  *)
(* other holder of the client.                                             *)

\* events.EventType
TaskAck == "task"
Mitigation == "mitigation"
Log == "log"
Error == "error"
Resolution == "resolution"

\* The dynamic type of the value given to Notify: one of the five Event variants, or
\* something else (a pointer to a variant, a string, nil).
EventVariants == {"MitigationEvent", "TaskEvent", "LogEvent", "ErrorEvent", "ResolutionEvent"}
OtherTypes == {"*LogEvent", "string", "nil"}

\* The values given to Notify. A LogEvent's attribute map and a MitigationEvent's Info
\* hold values of any type, some of which json.Marshal rejects.
EventValues ==
    {[variant |-> v, data |-> d] : v \in EventVariants \cup OtherTypes, d \in {"e1", "e2"}}
    \cup {[variant |-> v, data |-> "unmarshalable"] : v \in {"LogEvent", "MitigationEvent"}}

ErrInvalidType == "invalid type"
ErrMarshal == "json marshal error"

\* Mutant of EventTag: a LogEvent is tagged as an error.
EventTagLogAsError(variant) ==
    CASE variant = "MitigationEvent" -> Mitigation
      [] variant = "TaskEvent" -> TaskAck
      [] variant = "LogEvent" -> Error
      [] variant = "ErrorEvent" -> Error
      [] variant = "ResolutionEvent" -> Resolution
      [] OTHER -> ""

\* switch event.(type): the EventType of the request body, "" in the default branch.
EventTag(variant) ==
    CASE variant = "MitigationEvent" -> Mitigation
      [] variant = "TaskEvent" -> TaskAck
      [] variant = "LogEvent" -> Log
      [] variant = "ErrorEvent" -> Error
      [] variant = "ResolutionEvent" -> Resolution
      [] OTHER -> ""

\* json.Marshal(event): the JSON text of the event.
Marshal(event) ==
    IF event.data = "unmarshalable" THEN [ok |-> FALSE, json |-> ""]
    ELSE [ok |-> TRUE, json |-> "{" \o event.variant \o " " \o event.data \o "}"]

\* Mutant of NotifyCall: a value of another type is posted with an empty type.
NotifyCallPostsAnyType(event) ==
    /\ notif.pc # "call"
    /\ LET rawEvent == Marshal(event)
       IN IF ~rawEvent.ok
          THEN /\ notif' = [pc |-> "done", event |-> event, reqBody |-> NoEnvelope,
                            err |-> ErrMarshal]
               /\ UNCHANGED http
          ELSE /\ notif' = [pc |-> "call", event |-> event,
                            reqBody |-> [type |-> EventTag(event.variant),
                                         event |-> rawEvent.json],
                            err |-> NoErr]
               /\ http' = [http EXCEPT !["app"] = StartCall("events")]
    /\ UNCHANGED <<ctxDone, queue, closed, prod, cons, stopped, connCalls, acks, served,
                   nreq, seen401>>

\* Notify(ctx, event) up to its call(ctx, POST, "events", reqBody, nil).
NotifyCall(event) ==
    /\ notif.pc # "call"
    /\ LET tag == EventTag(event.variant)
           rawEvent == Marshal(event)
       IN IF tag = ""
          THEN /\ notif' = [pc |-> "done", event |-> event, reqBody |-> NoEnvelope,
                            err |-> ErrInvalidType]
               /\ UNCHANGED http
          ELSE IF ~rawEvent.ok
          THEN /\ notif' = [pc |-> "done", event |-> event, reqBody |-> NoEnvelope,
                            err |-> ErrMarshal]
               /\ UNCHANGED http
          ELSE /\ notif' = [pc |-> "call", event |-> event,
                            reqBody |-> [type |-> tag, event |-> rawEvent.json],
                            err |-> NoErr]
               /\ http' = [http EXCEPT !["app"] = StartCall("events")]
    /\ UNCHANGED <<ctxDone, queue, closed, prod, cons, stopped, connCalls, acks, served,
                   nreq, seen401>>

\* Notify returns what call() returned.
NotifyReturn ==
    /\ notif.pc = "call"
    /\ http["app"].st = "done"
    /\ notif' = [notif EXCEPT !.pc = "done", !.err = http["app"].err]
    /\ http' = [http EXCEPT !["app"] = NoCall]
    /\ UNCHANGED <<ctxDone, queue, closed, prod, cons, stopped, connCalls, acks, served,
                   nreq, seen401>>

\* Notify in use on its own: Start has not been called.
NotifyInit ==
    /\ ErrParked
    /\ LogParked
    /\ LoopParked
    /\ AppParked

NotifyNext ==
    \/ \E event \in EventValues :
            NotifyCall(event) /\ UNCHANGED <<errVars, logVars, inspected>>
    \/ NotifyReturn /\ UNCHANGED <<errVars, logVars, inspected>>
    \/ \E r \in Outcomes("events", 0) : Do("app", r) /\ UNCHANGED <<errVars, logVars, appVars>>
    \/ \E again \in BOOLEAN : Backoff("app", again) /\ UNCHANGED <<errVars, logVars, appVars>>
    \/ Cancel /\ UNCHANGED <<errVars, logVars, appVars>>

SpecNotify == NotifyInit /\ [][NotifyNext]_vars

-----------------------------------------------------------------------------
(* Task.Status (sdk task model).                                           *)

\* The Task values asked for their status: timestamps before, at and after zero,
\* both flags, and two of the fields Status does not read.
TaskValues ==
    [Started : {-1, 0, 1}, Completed : {-1, 0, 1}, Archived : BOOLEAN, Error : BOOLEAN,
     ErrorMessage : {"", "failed"}, Action : {"stop", "restore"}]

\* Mutant of Status: a task that has not started is pending, archived or not.
StatusPendingFirst(t) ==
    IF t.Started = 0 THEN "pending"
    ELSE IF t.Started = 0 /\ t.Archived THEN "cancelled"
    ELSE IF t.Started > 0 /\ t.Completed = 0 THEN "toack"
    ELSE IF t.Error /\ ~t.Archived THEN "error"
    ELSE IF t.Archived THEN "archived"
    ELSE "unknown"

\* func (t Task) Status() string
Status(t) ==
    IF t.Started = 0 /\ t.Archived THEN "cancelled"
    ELSE IF t.Started = 0 THEN "pending"
    ELSE IF t.Started > 0 /\ t.Completed = 0 THEN "toack"
    ELSE IF t.Error /\ ~t.Archived THEN "error"
    ELSE IF t.Archived THEN "archived"
    ELSE "unknown"

\* t.Status() is called on a task.
Inspect(t) ==
    /\ inspected' = [task |-> t, status |-> Status(t)]
    /\ UNCHANGED notif

StatusInit ==
    /\ ErrParked
    /\ LogParked
    /\ LoopParked
    /\ AppParked

StatusNext ==
    \E t \in TaskValues : Inspect(t) /\ UNCHANGED <<errVars, logVars, loopVars>>

SpecStatus == StatusInit /\ [][StatusNext]_vars

\* The six answers, each with the tasks it is for.
StatusCases(t) ==
    LET notStarted == t.Started = 0
        running == t.Started > 0 /\ t.Completed = 0
        rest == ~notStarted /\ ~running
    IN [cancelled |-> notStarted /\ t.Archived,
        pending |-> notStarted /\ ~t.Archived,
        toack |-> running,
        error |-> rest /\ t.Error /\ ~t.Archived,
        archived |-> rest /\ t.Archived,
        unknown |-> rest /\ ~t.Error /\ ~t.Archived]

SameFour(t, u) ==
    /\ t.Started = u.Started /\ t.Completed = u.Completed
    /\ t.Archived = u.Archived /\ t.Error = u.Error

\* C32: Task.Status is a total function of Started, Completed, Archived and Error
\* only, with exactly one of six answers: Started = 0 and Archived gives cancelled;
\* Started = 0 gives pending; Started > 0 and Completed = 0 gives toack; otherwise
\* Error and not Archived gives error; otherwise Archived gives archived; otherwise
\* unknown.
C32_StatusByPrecedence ==
    /\ inspected # NoStatus =>
          /\ inspected.status \in DOMAIN StatusCases(inspected.task)
          /\ StatusCases(inspected.task)[inspected.status]
          /\ \A a \in DOMAIN StatusCases(inspected.task) :
                StatusCases(inspected.task)[a] => a = inspected.status
          /\ \A u \in TaskValues :
                SameFour(u, inspected.task) => Status(u) = inspected.status

\* A completed task with both flags set is archived, not in error.
C32_Witness ==
    /\ inspected # NoStatus
    /\ inspected.task.Started > 0
    /\ inspected.task.Completed > 0
    /\ inspected.task.Error
    /\ inspected.task.Archived
    /\ inspected.status = "archived"

-----------------------------------------------------------------------------
(* Claims on the client.                                                    *)

\* errors.Is(err, ErrUnauthorizedConnector) on the error a finished call returned.
IsUnauthorized(c) == c.st = "done" /\ c.err = ErrUnauthorizedConnector

\* C10: a 401 response is never retried, and call returns an error matching
\* ErrUnauthorizedConnector whatever code the body holds (1, 2, another value, or none
\* because the body does not parse); no other outcome of call (another status, a
\* network error while sending or while reading the response, a spent retry budget
\* after 502s, a cancelled context, a JSON decode failure) returns a matching error.
C10_UnauthorizedIff401 ==
    \A g \in Goroutines :
        /\ http[g].status = StatusUnauthorized => http[g].st = "done"
        /\ http[g].status = StatusUnauthorized /\ http[g].respRead => IsUnauthorized(http[g])
        /\ IsUnauthorized(http[g]) => http[g].status = StatusUnauthorized /\ http[g].respRead

\* A call whose first attempt failed and whose second attempt got a 401 with a body
\* that does not parse: it has returned after two attempts, unauthorized.
C10_Witness ==
    \E g \in Goroutines :
        /\ http[g].st = "done"
        /\ http[g].status = StatusUnauthorized
        /\ http[g].respRead
        /\ http[g].code = 0
        /\ http[g].tries = 2
        /\ http[g].err = ErrUnauthorizedConnector

\* C9: once a 401 response has arrived from any endpoint, no further task is fetched
\* from the manager and none is pushed into the queue. The code does not keep this: only
\* a 401 on the tasks fetch stops the producer.
C9_NoProductionAfter401 ==
    [][seen401 => served' = served /\ Len(queue') <= Len(queue)]_vars

\* C11: retryDo makes a further attempt only after an attempt that ended in a transport
\* failure or a 502; a response with any other status ends the call after that attempt;
\* a 502 or a failure, with the context live, is followed by another attempt or, the
\* budget spent, by the return of that attempt's own error, which never matches
\* ErrUnauthorizedConnector.
C11_RetryOnlyFailureOr502 ==
    [][\A g \in Goroutines :
          LET c == http[g]
              d == http'[g]
          IN /\ (c.tries >= 1 /\ d.tries > c.tries) =>
                    c.st = "do" /\ c.status \in {0, StatusBadGateway}
             /\ (d.tries > c.tries /\ d.status \notin {0, StatusBadGateway}) =>
                    d.st = "done" /\ d.tries = c.tries + 1
             /\ c.st = "done" => d.tries <= c.tries /\ (d = c \/ d.tries = 0)
             /\ (c.st = "backoff" /\ d # c /\ ~ctxDone) =>
                    \/ d = [c EXCEPT !.st = "do"]
                    \/ d = [c EXCEPT !.st = "done"] /\ d.err \in {ErrTransport, ErrBadGateway}
             /\ (c.st = "backoff" /\ d # c /\ ctxDone) =>
                    d = [c EXCEPT !.st = "done", !.err = ErrContext]
    ]_vars

\* A call that was tried twice, got a 502 on the second attempt and, the budget spent,
\* has returned the bad-gateway error.
C11_Witness ==
    \E g \in Goroutines :
        /\ http[g].st = "done"
        /\ http[g].tries = 2
        /\ http[g].status = StatusBadGateway
        /\ http[g].bodyRead
        /\ http[g].err = ErrBadGateway

\* What a step of the loop does, read off the variables.
Last(q) == q[Len(q)]
Dequeues == Len(queue') < Len(queue)
Acks == acks' # acks
CallsConnector == connCalls' # connCalls

\* A handling step failed: the Connector's call returned an error, or the call could not
\* be made (wrong status, unreadable restore content, configuration not fetched).
HandlingFailed(task) ==
    IF CallsConnector THEN ~Last(connCalls').ok
    ELSE \/ task.action \in {"stop", "start", "restore"}
         \/ task.action = "update-config"

Taken == Len(acks) + (IF cons.pc = "config" THEN 1 ELSE 0)

\* C13: tasks are handled and acknowledged in the order the producer pushed them (the
\* manager numbers them in the order it returns them), one at a time: the queue and the
\* rest of the batch hold the following tasks in order, the acknowledgements and the
\* Connector's calls follow that order, and whenever a task is in hand every earlier
\* task has been acknowledged and its Notify has returned.
C13_FifoOneAtATime ==
    /\ \A i \in 1..Len(acks) : acks[i].id = i
    /\ \A i \in 1..Len(queue) : queue[i].id = Taken + i
    /\ \A i \in 1..Len(prod.batch) : prod.batch[i].id = Taken + Len(queue) + i
    /\ \A i, j \in 1..Len(connCalls) : i < j => connCalls[i].task < connCalls[j].task
    /\ \A i \in 1..Len(connCalls) : connCalls[i].task <= Taken
    /\ cons.pc \in {"config", "ack"} =>
            cons.task.id = Taken /\ http["cons"].st # "idle"
    /\ cons.pc \in {"select", "done"} => cons.task = NoTask /\ http["cons"].st = "idle"

\* Two tasks have been handled by the Connector and acknowledged, in their order.
C13_Witness ==
    /\ Len(acks) = 2
    /\ Len(connCalls) = 2
    /\ connCalls[1].task = 1
    /\ connCalls[2].task = 2
    /\ cons.pc = "ack"

\* C14: when the acknowledgement's Notify returns an error matching
\* ErrUnauthorizedConnector, Start returns, and once returned it takes no task, calls
\* the Connector no more and acknowledges nothing; when Notify returns nil or any other
\* error, Start is back at its select, ready to take the next task.
C14_AckUnauthorizedEndsStart ==
    [][/\ (cons.pc = "ack" /\ cons' # cons) =>
            /\ http["cons"].st = "done"
            /\ IF http["cons"].err = ErrUnauthorizedConnector
               THEN cons'.pc = "done"
               ELSE cons'.pc = "select"
       /\ cons.pc = "done" => cons' = cons /\ ~Dequeues /\ ~Acks /\ ~CallsConnector
    ]_vars

\* Start has returned with the context live and the channel open, so on an
\* unauthorized acknowledgement, and a task is left in the queue, never to be handled.
C14_Witness ==
    /\ cons.pc = "done"
    /\ ~ctxDone
    /\ ~closed
    /\ queue # <<>>
    /\ Len(acks) = 1

\* C15: when getTasks returns an error that does not match ErrUnauthorizedConnector, the
\* producer does not return and does not close the channel: it is back at the top of its
\* loop, from where, the context live, its next step is another fetch; the tasks of a
\* later successful fetch are pushed as usual.
C15_FetchErrorKeepsProducing ==
    [][/\ (prod.pc = "fetch" /\ prod' # prod
             /\ http["prod"].err \notin {NoErr, ErrUnauthorizedConnector}) =>
            /\ prod'.pc = "select"
            /\ ~closed'
            /\ queue' = queue
       /\ (prod.pc = "select" /\ prod' # prod /\ ~ctxDone) =>
            /\ prod'.pc = "fetch"
            /\ http'["prod"] = StartCall("tasks")
            /\ ~closed'
       /\ (prod.pc = "fetch" /\ prod' # prod /\ http["prod"].err = NoErr
             /\ http["prod"].payload # <<>>) =>
            prod'.pc = "push" /\ prod'.batch = http["prod"].payload
    ]_vars

\* A fetch has failed with a non-fatal error; the batch of a later fetch is being pushed,
\* and its first task has been taken by Start and acknowledged.
C15_Witness ==
    /\ prod.failed
    /\ prod.pc = "push"
    /\ ~ctxDone
    /\ ~closed
    /\ Len(acks) >= 1
    /\ Len(acks) + Len(queue) + Len(prod.batch) = served

\* getTasks has returned an error matching ErrUnauthorizedConnector to the producer.
FetchUnauthorized ==
    /\ prod.pc = "fetch"
    /\ http["prod"].st = "done"
    /\ http["prod"].err = ErrUnauthorizedConnector

\* C16: when the fetch of tasks returns unauthorized the producer returns, closing the
\* channel, and fetches no more; Start then eventually returns. Start returns only when
\* it finds the channel closed and empty, when it finds the context done, or when an
\* acknowledgement returned unauthorized.
C16_UnauthorizedFetchEndsLoop ==
    /\ [][/\ (FetchUnauthorized /\ prod' # prod) => prod'.pc = "done" /\ closed'
          /\ prod.pc = "done" =>
                /\ prod' = prod
                /\ http'["prod"] = http["prod"]
                /\ http["prod"].st = "idle"
                /\ served' = served
          /\ closed => closed' /\ prod.pc = "done"
          /\ (cons.pc # "done" /\ cons'.pc = "done") =>
                \/ cons.pc = "select" /\ closed /\ queue = <<>>
                \/ cons.pc = "select" /\ ctxDone
                \/ cons.pc = "ack" /\ http["cons"].err = ErrUnauthorizedConnector
       ]_vars
    /\ FetchUnauthorized ~> cons.pc = "done"

\* The fetch returned unauthorized, the producer closed the channel with the context
\* live, and Start, having handled the task that was queued, has returned.
C16_Witness ==
    /\ prod.pc = "done"
    /\ closed
    /\ ~ctxDone
    /\ cons.pc = "done"
    /\ Len(acks) >= 1
    /\ queue = <<>>

\* C17: once the context is cancelled, the producer and Start both eventually return.
\* The code does not keep this: the producer's push into a full channel does not watch
\* the context, so with Start gone it blocks for ever.
C17_CancelEndsBoth == ctxDone ~> (prod.pc = "done" /\ cons.pc = "done")

C19_ConnectorErrorNotFatal ==
    [][/\ (CallsConnector /\ ~Last(connCalls').ok) =>
            /\ Acks
            /\ Last(acks').id = Last(connCalls').task
            /\ Last(acks').error # ""
            /\ cons'.pc = "ack"
       /\ (Dequeues /\ Head(queue).action = "restore"
             /\ Head(queue).content \in {"not json", "{}"}) =>
            /\ ~CallsConnector
            /\ Acks
            /\ Last(acks').id = Head(queue).id
            /\ Last(acks').error # ""
            /\ cons'.pc = "ack"
       /\ (cons.pc = "ack" /\ cons.taskError # "" /\ cons' # cons
             /\ http["cons"].err # ErrUnauthorizedConnector) =>
            cons'.pc = "select"
    ]_vars

\* The Connector returned an error for the first task, which was acknowledged with an
\* error text; Start went on to the second task, a restore whose content has no id.
C19_Witness ==
    /\ Len(acks) = 2
    /\ Len(connCalls) = 1
    /\ connCalls[1].task = 1
    /\ ~connCalls[1].ok
    /\ acks[1].error # ""
    /\ cons.pc = "ack"
    /\ cons.task.action = "restore"
    /\ cons.task.content = "{}"
    /\ acks[2].error # ""

\* C20: a stop task taken while Status() is Stopped makes no call to the Connector and
\* is acknowledged with an error text, and so is a start task taken while Status() is
\* Started; otherwise Stop (for a stop task) or Start (for a start task) is called, once.
C20_StopStartStatusChecked ==
    [][/\ (Dequeues /\ Head(queue).action \in {"stop", "start"}) =>
            /\ Acks
            /\ Last(acks').id = Head(queue).id
            /\ IF stopped <=> Head(queue).action = "stop"
               THEN ~CallsConnector /\ Last(acks').error # "" /\ stopped' = stopped
               ELSE /\ connCalls' = Append(connCalls, Last(connCalls'))
                    /\ Last(connCalls').task = Head(queue).id
                    /\ Last(connCalls').method =
                          (IF Head(queue).action = "stop" THEN "Stop" ELSE "Start")
       /\ (CallsConnector /\ Last(connCalls').method \in {"Stop", "Start"}) =>
            /\ Dequeues
            /\ Head(queue).action = (IF Last(connCalls').method = "Stop" THEN "stop" ELSE "start")
    ]_vars

\* A first stop task stopped the Connector; the second stop task made no call and is
\* being acknowledged with an error text.
C20_Witness ==
    /\ Len(acks) = 2
    /\ Len(connCalls) = 1
    /\ connCalls[1].method = "Stop"
    /\ connCalls[1].ok
    /\ stopped
    /\ cons.pc = "ack"
    /\ cons.task.action = "stop"
    /\ acks[1].error = ""
    /\ acks[2].error # ""

\* C21: for a restore task, Restore is called only when the content decodes and holds
\* a non-empty id, and then once, with that id; a content that does not decode, or
\* that holds no id, leads to no Restore call and an acknowledgement with an error text.
C21_RestoreNeedsId ==
    [][/\ (Dequeues /\ Head(queue).action = "restore") =>
            /\ Acks
            /\ Last(acks').id = Head(queue).id
            /\ IF Head(queue).content = "{id: a}"
               THEN /\ connCalls' = Append(connCalls, Last(connCalls'))
                    /\ Last(connCalls').method = "Restore"
                    /\ Last(connCalls').task = Head(queue).id
                    /\ Last(connCalls').arg = "a"
                    /\ (Last(acks').error = "") <=> Last(connCalls').ok
               ELSE ~CallsConnector /\ Last(acks').error # ""
       /\ (CallsConnector /\ Last(connCalls').method = "Restore") =>
            /\ Dequeues
            /\ Head(queue).action = "restore"
            /\ Last(connCalls').arg # ""
    ]_vars

\* A restore task with id "a" is in hand: Restore was called with "a" and returned no
\* error, and the acknowledgement carries no error text.
C21_Witness ==
    /\ cons.pc = "ack"
    /\ cons.task.action = "restore"
    /\ cons.task.content = "{id: a}"
    /\ Len(connCalls) = 1
    /\ connCalls[1] = [task |-> cons.task.id, method |-> "Restore", arg |-> "a", ok |-> TRUE]
    /\ Last(acks) = [id |-> cons.task.id, error |-> ""]

\* C22: a task whose action is none of update-config, stop, start and restore makes no
\* call to the Connector and no fetch of the configuration, and is acknowledged at once
\* with an empty error text.
C22_UnknownActionIsNoOp ==
    [][(Dequeues /\ Head(queue).action \notin {"update-config", "stop", "start", "restore"}) =>
          /\ ~CallsConnector
          /\ stopped' = stopped
          /\ acks' = Append(acks, [id |-> Head(queue).id, error |-> ""])
          /\ cons'.pc = "ack"
          /\ http'["cons"] = StartCall("events")
    ]_vars

\* A task of an unknown action is in hand, being acknowledged with no error text, and
\* the Connector has not been called.
C22_Witness ==
    /\ cons.pc = "ack"
    /\ cons.task.action = "other"
    /\ connCalls = <<>>
    /\ Last(acks) = [id |-> cons.task.id, error |-> ""]
    /\ http["cons"].path = "events"
    /\ Len(queue) = 0

\* C23: the loop retries no task: a task the manager returned is acknowledged at most
\* once and handed to the Connector at most once, and a task Start has taken is never
\* back in the queue, whatever the outcome of its handling and of its acknowledgement.
C23_NoTaskRetried ==
    /\ \A i, j \in 1..Len(acks) : acks[i].id = acks[j].id => i = j
    /\ \A i, j \in 1..Len(connCalls) : connCalls[i].task = connCalls[j].task => i = j
    /\ \A i \in 1..Len(queue) :
          /\ \A j \in 1..Len(acks) : queue[i].id # acks[j].id
          /\ \A j \in 1..Len(connCalls) : queue[i].id # connCalls[j].task
          /\ queue[i].id # cons.task.id
    /\ Len(acks) <= served
    /\ Len(connCalls) <= served

\* The Connector returned an error for the first task and the acknowledgement of the
\* second has failed: each was acknowledged once and neither is back in the queue.
C23_Witness ==
    /\ Len(acks) = 2
    /\ Len(connCalls) >= 1
    /\ ~connCalls[1].ok
    /\ acks[1].error # ""
    /\ cons.pc = "ack"
    /\ cons.task.id = 2
    /\ http["cons"].st = "done"
    /\ http["cons"].err \notin {NoErr, ErrUnauthorizedConnector}
    /\ queue = <<>>

\* The tag each event variant is to travel under.
TagOf ==
    [v \in EventVariants |->
        CASE v = "MitigationEvent" -> "mitigation"
          [] v = "TaskEvent" -> "task"
          [] v = "LogEvent" -> "log"
          [] v = "ErrorEvent" -> "error"
          [] v = "ResolutionEvent" -> "resolution"]

\* C28: Notify maps each of the five event variants to a fixed tag, the five tags are
\* pairwise distinct, and every event posted to the events endpoint is wrapped in an
\* envelope carrying the tag of its own variant, so the tag determines the variant.
C28_TagDeterminesVariant ==
    /\ \A v \in EventVariants : EventTag(v) = TagOf[v]
    /\ \A v \in EventVariants, w \in EventVariants : EventTag(v) = EventTag(w) => v = w
    /\ http["app"].st # "idle" =>
          /\ http["app"].path = "events"
          /\ notif.pc = "call"
          /\ notif.event.variant \in EventVariants
          /\ notif.reqBody.type = TagOf[notif.event.variant]
          /\ notif.reqBody.event = Marshal(notif.event).json
          /\ \A v \in EventVariants :
                TagOf[v] = notif.reqBody.type => v = notif.event.variant

\* A LogEvent has been posted under the log tag and the manager has answered 200.
C28_Witness ==
    /\ notif.pc = "call"
    /\ notif.event.variant = "LogEvent"
    /\ notif.reqBody.type = Log
    /\ http["app"].st = "done"
    /\ http["app"].tries = 2
    /\ http["app"].status = StatusOK
    /\ http["app"].err = NoErr

\* Notify is called with the value in notif'.event.
NotifyCalled == notif.pc # "call" /\ notif' # notif

\* C29: Notify called with a value that is not one of the five event variants returns
\* an invalid-type error without issuing any HTTP request and without any retry.
C29_InvalidTypeNoRequest ==
    [][(NotifyCalled /\ notif'.event.variant \notin EventVariants) =>
          /\ notif'.pc = "done"
          /\ notif'.err = ErrInvalidType
          /\ notif'.reqBody = NoEnvelope
          /\ http' = http
          /\ http["app"] = NoCall
          /\ nreq' = nreq]_vars

\* Notify has returned the invalid-type error for a pointer to an event, after an
\* earlier call with an event value went through to the manager.
C29_Witness ==
    /\ notif.pc = "done"
    /\ notif.event.variant = "*LogEvent"
    /\ notif.err = ErrInvalidType
    /\ http["app"] = NoCall
    /\ nreq = 1

\* The 200 responses whose body holds no byte: with Content-Length: 0, or with no
\* declared length.
EmptyBodies == {"empty", "empty unknown length"}

\* C30: on a 200 response call decodes the body into the target only if a target was
\* given and the body is non-empty; with a nil target or an empty body it returns
\* success and leaves the target untouched, whether the response declares a length
\* of zero or declares no length.
C30_EmptyBodyOrNilTargetIsSuccess ==
    \A g \in Goroutines :
        (/\ http[g].st = "done"
         /\ http[g].status = StatusOK
         /\ http[g].respRead
         /\ (~HasTarget(http[g].path) \/ http[g].respBody \in EmptyBodies))
        => http[g].err = NoErr /\ http[g].payload = <<>>

\* The producer stands at its push with the buffer full.
BlockedOnPush == prod.pc = "push" /\ Len(queue) = taskChannelBufferSize

\* C36 as written: the tasks fetched and not yet taken by Start, those in the queue and
\* those of the fetched batch still to be pushed, number at most taskChannelBufferSize.
C36_FetchedNotDequeuedWithinCapacity ==
    Len(queue) + Len(prod.batch) <= taskChannelBufferSize

\* C36: the queue never holds more than taskChannelBufferSize tasks; while the producer
\* stands at its push with the queue full it does not move, starts no request and the
\* manager serves no task, and the queue changes only by Start taking its head; no
\* fetched task is dropped: while the producer pushes, the queue followed by the rest of
\* its batch is the run of the tasks served and not yet taken.
C36_QueueBoundedProducerBlocks ==
    [][/\ Len(queue') <= taskChannelBufferSize
       /\ BlockedOnPush =>
            /\ prod' = prod
            /\ http'["prod"] = http["prod"]
            /\ served' = served
            /\ queue' = queue \/ queue' = Tail(queue)
       /\ prod'.pc = "push" =>
            /\ prod'.batch # <<>>
            /\ Taken' + Len(queue') + Len(prod'.batch) = served'
            /\ \A i \in 1..Len(queue') : queue'[i].id = Taken' + i
            /\ \A i \in 1..Len(prod'.batch) : prod'.batch[i].id = Taken' + Len(queue') + i
    ]_vars

\* The producer was held at its push by a full queue with one task of its batch left,
\* Start has taken a task, and the producer has pushed that last task into the slot.
C36_Witness ==
    /\ Len(queue) = taskChannelBufferSize
    /\ queue[taskChannelBufferSize].id = taskChannelBufferSize + 1
    /\ prod.pc = "select"
    /\ Taken = 1

\* C37: once the context is cancelled Start takes no further task from the queue, and so
\* calls no Connector method and builds no acknowledgement for a task that was still
\* queued at that moment.
C37_NoTaskTakenAfterCancel ==
    [][(ctxDone /\ cons.pc = "select") =>
            /\ queue' = queue
            /\ connCalls' = connCalls
            /\ acks' = acks]_vars

\* C39: every attempt of retryDo after the first sends the request as the first attempt
\* did, with its whole JSON body: when a further attempt starts, the body reader of the
\* request has not been consumed by an earlier attempt.
C39_RetrySendsUnreadBody ==
    \A g \in Goroutines :
        (http[g].st = "do" /\ http[g].tries >= 1) => ~http[g].bodyRead

\* Task i is in the queue; task i has been acknowledged (its handling came before).
InQueue(i) == \E j \in 1..Len(queue) : queue[j].id = i
Acked(i) == \E k \in 1..Len(acks) : acks[k].id = i

\* The tasks whose progress is followed: the last task the manager serves in small
\* batches, and the last task of the large batch, which is pushed only after the
\* producer has waited for room. Tasks are acknowledged in the order of their
\* numbers, so each is acknowledged only after all the tasks before it.
Followed == {MaxTasks, taskChannelBufferSize + 1}

====
